---- MODULE Spec2Model ----
(***************************************************************************)
(* Exam seating arrangement: the batch pipeline of exam_scheduler.py.      *)
(*                                                                         *)
(* ExamScheduler.process_all_dates walks the timetable rows; for each row  *)
(* it runs _process_session for Morning and then Evening.  A session       *)
(* parses its course list, resolves the enrolments, checks clashes, builds *)
(* a RoomAllocator, checks the aggregate capacity, allocates the courses   *)
(* (largest first), checks capacity violations and generates the outputs.  *)
(*                                                                         *)
(* Strings are sequences of one-character strings, so that parsing and     *)
(* floor resolution are computed the way the code computes them.           *)
(***************************************************************************)
EXTENDS Integers, Sequences, FiniteSets, TLC

(***************************************************************************)
(* Bounds of the model.                                                    *)
(***************************************************************************)
\* candidate ids (roll numbers) are 1..NumCands
NumCands == 5
\* the run configuration's buffer ranges over 0..MaxBuffer
MaxBuffer == 1
\* number of timetable rows the batch reads
NumDates == 1

\* program constant: the minimum slice of the fragment-avoidance pass
MIN_ALLOCATION_SIZE == 3

(***************************************************************************)
(* Small helpers.                                                          *)
(***************************************************************************)
Max(a, b) == IF a >= b THEN a ELSE b
Min(a, b) == IF a <= b THEN a ELSE b
Abs(x) == IF x >= 0 THEN x ELSE -x

RECURSIVE SumSeq(_)
SumSeq(s) == IF s = <<>> THEN 0 ELSE Head(s) + SumSeq(Tail(s))

\* Python's int(x * 0.5): the product is truncated toward zero
IntHalf(x) == IF x >= 0 THEN x \div 2 ELSE -((-x) \div 2)

\* lexicographic "<" on equally long tuples of integers (Python tuple order)
RECURSIVE LexLess(_, _)
LexLess(k1, k2) ==
    IF k1 = <<>> \/ k2 = <<>> THEN FALSE
    ELSE IF Head(k1) < Head(k2) THEN TRUE
    ELSE IF Head(k1) > Head(k2) THEN FALSE
    ELSE LexLess(Tail(k1), Tail(k2))

\* insert the keyed item p behind every item whose key is not greater
RECURSIVE InsertKeyed(_, _)
InsertKeyed(p, s) ==
    IF s = <<>> THEN <<p>>
    ELSE IF LexLess(p.k, Head(s).k) THEN <<p>> \o s
    ELSE <<Head(s)>> \o InsertKeyed(p, Tail(s))

RECURSIVE SortKeyed(_)
SortKeyed(s) ==
    IF s = <<>> THEN <<>>
    ELSE InsertKeyed(s[Len(s)], SortKeyed(SubSeq(s, 1, Len(s) - 1)))

\* Python's sorted(s, key=...): stable, ascending; keys[i] is the key of s[i]
SortedByKey(s, keys) ==
    LET keyed == SortKeyed([i \in 1..Len(s) |-> [k |-> keys[i], v |-> s[i]]])
    IN  [i \in 1..Len(s) |-> keyed[i].v]

IntKey(x) == <<x>>

\* sorted(list of roll numbers)
SortedRolls(s) == SortedByKey(s, [i \in 1..Len(s) |-> IntKey(s[i])])

SeqToSet(s) == {s[i] : i \in 1..Len(s)}

(***************************************************************************)
(* Characters.                                                             *)
(***************************************************************************)
Digits == {"0", "1", "2", "3", "4", "5", "6", "7", "8", "9"}

DigitValue(c) ==
    CASE c = "0" -> 0 [] c = "1" -> 1 [] c = "2" -> 2 [] c = "3" -> 3
      [] c = "4" -> 4 [] c = "5" -> 5 [] c = "6" -> 6 [] c = "7" -> 7
      [] c = "8" -> 8 [] c = "9" -> 9

Lower2Upper ==
    [c \in {"a", "b", "e", "m", "n", "o", "x"} |->
        CASE c = "a" -> "A" [] c = "b" -> "B" [] c = "e" -> "E" [] c = "m" -> "M"
          [] c = "n" -> "N" [] c = "o" -> "O" [] c = "x" -> "X"]

UpperChar(c) == IF c \in DOMAIN Lower2Upper THEN Lower2Upper[c] ELSE c

\* str.upper()
Upper(s) == [i \in 1..Len(s) |-> UpperChar(s[i])]

RECURSIVE LStrip(_)
LStrip(s) == IF s # <<>> /\ Head(s) = " " THEN LStrip(Tail(s)) ELSE s

RECURSIVE RStrip(_)
RStrip(s) ==
    IF s # <<>> /\ s[Len(s)] = " " THEN RStrip(SubSeq(s, 1, Len(s) - 1)) ELSE s

\* str.strip()
Strip(s) == RStrip(LStrip(s))

\* str.split(sep): the pieces between the separators, empty pieces included
RECURSIVE SplitAcc(_, _, _)
SplitAcc(s, sep, cur) ==
    IF s = <<>> THEN <<cur>>
    ELSE IF Head(s) = sep THEN <<cur>> \o SplitAcc(Tail(s), sep, <<>>)
    ELSE SplitAcc(Tail(s), sep, Append(cur, Head(s)))

Split(s, sep) == SplitAcc(s, sep, <<>>)

(***************************************************************************)
(* CourseParser.extract_courses                                            *)
(***************************************************************************)
\* A timetable cell is a string, [kind |-> "str", text |-> <characters>], or
\* a missing value (pandas NaN), which is not a string.
NaN == [kind |-> "nan", text |-> <<>>]
Str(chars) == [kind |-> "str", text |-> chars]
NoExamMarker == <<"N", "O", " ", "E", "X", "A", "M">>

RECURSIVE CleanItems(_)
CleanItems(items) ==
    IF items = <<>> THEN <<>>
    ELSE LET clean == Strip(Head(items))
         IN  (IF clean # <<>> THEN <<clean>> ELSE <<>>) \o CleanItems(Tail(items))

\* an extract_courses that knows the marker in capitals only
extract_courses_case_sensitive(course_str) ==
    IF course_str.kind # "str" THEN <<>>
    ELSE IF Strip(course_str.text) = NoExamMarker THEN <<>>
    ELSE CleanItems(Split(course_str.text, ";"))

extract_courses(course_str) ==
    IF course_str.kind # "str" THEN <<>>
    ELSE IF Upper(Strip(course_str.text)) = NoExamMarker THEN <<>>
    ELSE CleanItems(Split(course_str.text, ";"))

(***************************************************************************)
(* FloorCalculator                                                         *)
(***************************************************************************)
\* a get_floor without the rule for the tenth floor
get_floor_first_digit(room_id) ==
    LET room_str == Strip(room_id)
    IN  IF Len(room_str) >= 4 /\ room_str[1] \in Digits
        THEN DigitValue(room_str[1])
        ELSE 0

get_floor(room_id) ==
    LET room_str == Strip(room_id)
    IN  IF /\ Len(room_str) >= 5
           /\ \A i \in 1..Len(room_str) : room_str[i] \in Digits
           /\ SubSeq(room_str, 1, 2) = <<"1", "0">>
        THEN 10
        ELSE IF Len(room_str) >= 4 /\ room_str[1] \in Digits
        THEN DigitValue(room_str[1])
        ELSE 0

calculate_distance(floor1, floor2) == Abs(floor1 - floor2)

(***************************************************************************)
(* RoomAllocator                                                           *)
(*                                                                         *)
(* An allocator is the record [rooms, strategy, buffer, usage,             *)
(* course_tracker]; its methods are operators that return the new          *)
(* allocator.                                                              *)
(***************************************************************************)
\* the room records of the allocator: Floor and effective_capacity are added
AllocatorRooms(room_records, buff) ==
    [i \in 1..Len(room_records) |->
        [RoomNo |-> room_records[i].RoomNo,
         ExamCapacity |-> room_records[i].ExamCapacity,
         Block |-> room_records[i].Block,
         Floor |-> get_floor(room_records[i].RoomNo),
         effective_capacity |-> room_records[i].ExamCapacity - buff]]

\* RoomAllocator.__init__
NewAllocator(room_records, mode, buff) ==
    [rooms |-> AllocatorRooms(room_records, buff),
     strategy |-> mode,
     buffer |-> buff,
     usage |-> [id \in {room_records[i].RoomNo : i \in 1..Len(room_records)} |-> 0],
     course_tracker |-> <<>>]

\* course_tracker.get(key, 0)
TrackerGet(course_tracker, key) ==
    IF key \in DOMAIN course_tracker THEN course_tracker[key] ELSE 0

\* a get_available_capacity without the per-course limit of the sparse strategy
get_available_capacity_no_limit(al, room_id, course, max_cap) ==
    Max(0, max_cap - al.usage[room_id])

\* a get_available_capacity that returns the difference as it is
get_available_capacity_unclamped(al, room_id, course, max_cap) ==
    IF al.strategy = "dense"
    THEN max_cap - al.usage[room_id]
    ELSE Min(IntHalf(max_cap) - TrackerGet(al.course_tracker, <<room_id, course>>),
             max_cap - al.usage[room_id])

get_available_capacity(al, room_id, course, max_cap) ==
    LET current == al.usage[room_id]
        available ==
            IF al.strategy = "dense"
            THEN max_cap - current
            ELSE LET course_limit == IntHalf(max_cap)
                     course_usage == TrackerGet(al.course_tracker, <<room_id, course>>)
                     total_available == max_cap - current
                 IN  Min(course_limit - course_usage, total_available)
    IN  Max(0, available)

\* a register_allocation that forgets the room's running total
register_allocation_no_usage(al, room_id, course, count) ==
    LET key == <<room_id, course>>
    IN  IF al.strategy = "sparse"
        THEN [al EXCEPT !.course_tracker =
                 [k \in DOMAIN al.course_tracker \cup {key} |->
                     IF k = key THEN TrackerGet(al.course_tracker, key) + count
                     ELSE al.course_tracker[k]]]
        ELSE al

register_allocation(al, room_id, course, count) ==
    LET key == <<room_id, course>>
        usage2 == [al.usage EXCEPT ![room_id] = @ + count]
        tracker2 ==
            IF al.strategy = "sparse"
            THEN [k \in DOMAIN al.course_tracker \cup {key} |->
                     IF k = key THEN TrackerGet(al.course_tracker, key) + count
                     ELSE al.course_tracker[k]]
            ELSE al.course_tracker
    IN  [al EXCEPT !.usage = usage2, !.course_tracker = tracker2]

\* the body of both fill loops: assign the slice remaining[:assign_count]
\* to the room and register it.  st = [al, remaining, allocations].
AssignSlice(st, room, course, assign_count) ==
    [al |-> register_allocation(st.al, room.RoomNo, course, assign_count),
     remaining |-> SubSeq(st.remaining, assign_count + 1, Len(st.remaining)),
     allocations |-> Append(st.allocations,
                            [room |-> room,
                             students |-> SubSeq(st.remaining, 1, assign_count)])]

\* a first loop that never skips a room
RECURSIVE FragmentAvoidancePassNoSkip(_, _, _, _)
FragmentAvoidancePassNoSkip(st, course, rooms, i) ==
    IF i > Len(rooms) \/ st.remaining = <<>> THEN st
    ELSE LET room == rooms[i]
             available == get_available_capacity(st.al, room.RoomNo, course,
                                                 room.effective_capacity)
             assign_count == Min(Len(st.remaining), available)
         IN  IF available > 0
             THEN FragmentAvoidancePassNoSkip(AssignSlice(st, room, course, assign_count),
                                              course, rooms, i + 1)
             ELSE FragmentAvoidancePassNoSkip(st, course, rooms, i + 1)

\* first loop of _assign_to_rooms: small slices that leave candidates are skipped
RECURSIVE FragmentAvoidancePass(_, _, _, _)
FragmentAvoidancePass(st, course, rooms, i) ==
    IF i > Len(rooms) \/ st.remaining = <<>> THEN st
    ELSE LET room == rooms[i]
             available == get_available_capacity(st.al, room.RoomNo, course,
                                                 room.effective_capacity)
             assign_count == Min(Len(st.remaining), available)
         IN  IF available > 0
             THEN IF assign_count < MIN_ALLOCATION_SIZE /\ Len(st.remaining) > assign_count
                  THEN FragmentAvoidancePass(st, course, rooms, i + 1)
                  ELSE FragmentAvoidancePass(AssignSlice(st, room, course, assign_count),
                                             course, rooms, i + 1)
             ELSE FragmentAvoidancePass(st, course, rooms, i + 1)

\* second loop of _assign_to_rooms: any non-zero available capacity is used
RECURSIVE ForcedFillPass(_, _, _, _)
ForcedFillPass(st, course, rooms, i) ==
    IF i > Len(rooms) \/ st.remaining = <<>> THEN st
    ELSE LET room == rooms[i]
             available == get_available_capacity(st.al, room.RoomNo, course,
                                                 room.effective_capacity)
             assign_count == Min(Len(st.remaining), available)
         IN  IF available > 0
             THEN ForcedFillPass(AssignSlice(st, room, course, assign_count),
                                 course, rooms, i + 1)
             ELSE ForcedFillPass(st, course, rooms, i + 1)

_assign_to_rooms(st, course, rooms) ==
    LET afterFirst == FragmentAvoidancePass(st, course, rooms, 1)
    IN  IF afterFirst.remaining # <<>>
        THEN ForcedFillPass(afterFirst, course, rooms, 1)
        ELSE afterFirst

\* the keys of the dict "buildings": the blocks in order of first appearance
RECURSIVE BuildingOrder(_)
BuildingOrder(rooms) ==
    IF rooms = <<>> THEN <<>>
    ELSE LET before == BuildingOrder(SubSeq(rooms, 1, Len(rooms) - 1))
             b == rooms[Len(rooms)].Block
         IN  IF b \in SeqToSet(before) THEN before ELSE Append(before, b)

RoomsOfBuilding(rooms, b) == SelectSeq(rooms, LAMBDA r : r.Block = b)

BuildingAvailable(al, course, b) ==
    LET rs == RoomsOfBuilding(al.rooms, b)
    IN  SumSeq([i \in 1..Len(rs) |->
                  get_available_capacity(al, rs[i].RoomNo, course,
                                         rs[i].effective_capacity)])

\* the building loop of allocate_course; sel = [some, id, max_capacity],
\* some = FALSE standing for best_building = None
RECURSIVE SelectBuilding(_, _, _, _, _, _)
SelectBuilding(al, course, total, order, i, sel) ==
    IF i > Len(order) THEN sel
    ELSE LET available == BuildingAvailable(al, course, order[i])
         IN  IF available >= total
             THEN [some |-> TRUE, id |-> order[i], max_capacity |-> sel.max_capacity]
             ELSE IF available > sel.max_capacity
             THEN SelectBuilding(al, course, total, order, i + 1,
                                 [some |-> TRUE, id |-> order[i],
                                  max_capacity |-> available])
             ELSE SelectBuilding(al, course, total, order, i + 1, sel)

\* a building loop that visits the buildings by ascending id
best_building_ascending(al, course, total) ==
    LET order == BuildingOrder(al.rooms)
    IN  SelectBuilding(al, course, total,
                       SortedByKey(order, [i \in 1..Len(order) |-> IntKey(order[i])]),
                       1, [some |-> FALSE, id |-> 0, max_capacity |-> 0])

best_building(al, course, total) ==
    SelectBuilding(al, course, total, BuildingOrder(al.rooms), 1,
                   [some |-> FALSE, id |-> 0, max_capacity |-> 0])

\* "if best_building:": None, 0 and the empty string are false
Truthy(sel) == sel.some /\ sel.id # 0

CapacityFloorKey(r) == <<-r.effective_capacity, r.Floor>>

DistanceKey(r, ref_floor) ==
    <<calculate_distance(r.Floor, ref_floor), -r.effective_capacity>>

\* the rooms of the chosen building ordered by capacity and floor only
SortedBuildingRoomsByCapacity(al, b) ==
    LET building_rooms == RoomsOfBuilding(al.rooms, b)
    IN  SortedByKey(building_rooms,
                    [i \in 1..Len(building_rooms) |->
                        CapacityFloorKey(building_rooms[i])])

\* the rooms of the chosen building in the order they are visited
SortedBuildingRooms(al, b) ==
    LET building_rooms == RoomsOfBuilding(al.rooms, b)
        sorted_rooms ==
            SortedByKey(building_rooms,
                        [i \in 1..Len(building_rooms) |->
                            CapacityFloorKey(building_rooms[i])])
    IN  IF sorted_rooms # <<>>
        THEN LET ref_floor == sorted_rooms[1].Floor
             IN  SortedByKey(sorted_rooms,
                             [i \in 1..Len(sorted_rooms) |->
                                 DistanceKey(sorted_rooms[i], ref_floor)])
        ELSE sorted_rooms

OtherRoomsKey(r) == <<-r.effective_capacity, r.Block, r.Floor>>

\* the rooms outside the chosen building in the order they are visited
SortedOtherRooms(al, sel) ==
    LET other_rooms == SelectSeq(al.rooms, LAMBDA r : ~sel.some \/ r.Block # sel.id)
    IN  SortedByKey(other_rooms,
                    [i \in 1..Len(other_rooms) |-> OtherRoomsKey(other_rooms[i])])

\* allocate_course: [al, remaining, allocations] after the call
allocate_course(al, course, students) ==
    LET total == Len(students)
        sel == best_building(al, course, total)
        st0 == [al |-> al, remaining |-> students, allocations |-> <<>>]
        st1 == IF Truthy(sel)
               THEN _assign_to_rooms(st0, course, SortedBuildingRooms(al, sel.id))
               ELSE st0
    IN  IF st1.remaining # <<>>
        THEN _assign_to_rooms(st1, course, SortedOtherRooms(al, sel))
        ELSE st1

\* a check_capacity_violations that compares with the nominal capacity
check_capacity_violations_nominal(al) ==
    {id \in DOMAIN al.usage :
        \E i \in 1..Len(al.rooms) :
            /\ al.rooms[i].RoomNo = id
            /\ al.usage[id] > al.rooms[i].ExamCapacity}

\* check_capacity_violations: the rooms whose usage exceeds the effective capacity
check_capacity_violations(al) ==
    {id \in DOMAIN al.usage :
        \E i \in 1..Len(al.rooms) :
            /\ al.rooms[i].RoomNo = id
            /\ \A j \in 1..(i - 1) : al.rooms[j].RoomNo # id
            /\ al.usage[id] > al.rooms[i].effective_capacity}

(***************************************************************************)
(* ConflictDetector.check_conflicts                                        *)
(***************************************************************************)
\* course_enrollments is a sequence of [course, students], one per dict key
student_courses(course_enrollments, sid) ==
    LET Occurrences(students) == Len(SelectSeq(students, LAMBDA x : x = sid))
    IN  SumSeq([i \in 1..Len(course_enrollments) |->
                  Occurrences(course_enrollments[i].students)])

\* a check_conflicts that reports nothing
check_conflicts_never(course_enrollments) == FALSE

\* a check_conflicts that only sees a candidate listed twice in one course
check_conflicts_within_course(course_enrollments) ==
    \E i \in 1..Len(course_enrollments) :
        \E j, k \in 1..Len(course_enrollments[i].students) :
            /\ j # k
            /\ course_enrollments[i].students[j] = course_enrollments[i].students[k]

\* a check_conflicts that needs three courses for a clash
check_conflicts_three(course_enrollments) ==
    \E i \in 1..Len(course_enrollments) :
        \E j \in 1..Len(course_enrollments[i].students) :
            student_courses(course_enrollments, course_enrollments[i].students[j]) > 2

check_conflicts(course_enrollments) ==
    \E i \in 1..Len(course_enrollments) :
        \E j \in 1..Len(course_enrollments[i].students) :
            student_courses(course_enrollments, course_enrollments[i].students[j]) > 1

(***************************************************************************)
(* The inputs of a batch run.                                              *)
(***************************************************************************)
CourseA == <<"A">>
CourseB == <<"B">>

\* room identifiers of the registry, in the order of its rows
RoomNos == << <<"2", "0", "3", "1">>, <<"1", "0", "0", "4", "2">> >>
\* nominal capacities ("Exam Capacity") a room may have
CapChoices == {0, 3, 5}
\* building ids ("Block"); 0 is an id that Python takes for false
Blocks == {0, 1}

Registries ==
    {reg \in [1..Len(RoomNos) -> [RoomNo : SeqToSet(RoomNos),
                                  ExamCapacity : CapChoices,
                                  Block : Blocks]] :
        \A i \in 1..Len(RoomNos) : reg[i].RoomNo = RoomNos[i]}

\* The enrolment relation (course_code, rollno): course A has the candidates
\* 1..a, course B the last b candidates, and with dup the first pair of the
\* table is listed twice.  The courses share candidates when a + b > NumCands.
BSizes == {0, 2, 3}

EnrollmentTable(a, b, dup) ==
    [i \in 1..a |-> [course_code |-> CourseA, rollno |-> a + 1 - i]]
    \o [i \in 1..b |-> [course_code |-> CourseB, rollno |-> NumCands - b + i]]
    \o (IF dup /\ a > 0 THEN <<[course_code |-> CourseA, rollno |-> a]>> ELSE <<>>)

EnrollmentTables ==
    {EnrollmentTable(a, b, dup) : a \in 0..NumCands, b \in BSizes, dup \in BOOLEAN}

\* timetable cells
CellAB == Str(<<"A", ";", "B">>)
CellBA == Str(<<"B", " ", ";", " ", "A">>)
CellA == Str(<<"A">>)
CellNoExam == Str(<<"N", "o", " ", "E", "x", "a", "m">>)

\* the rows a timetable is made of; a row without a date is skipped
Rows ==
    { [Date |-> "date", Morning |-> CellAB, Evening |-> CellA],
      [Date |-> "date", Morning |-> CellBA, Evening |-> CellNoExam],
      [Date |-> "date", Morning |-> CellA, Evening |-> CellBA],
      [Date |-> "NaT", Morning |-> NaN, Evening |-> NaN] }

NoRow == [Date |-> "NaT", Morning |-> NaN, Evening |-> NaN]
NoAllocator == [rooms |-> <<>>, strategy |-> "dense", buffer |-> 0,
                usage |-> <<>>, course_tracker |-> <<>>]

(***************************************************************************)
(* State.                                                                  *)
(***************************************************************************)
VARIABLES
    rooms,            \* self.rooms: the room registry
    strategy,         \* self.strategy
    buffer,           \* self.buffer
    enrollments,      \* self.enrollments: the (course_code, rollno) table
    num_rows,         \* len(self.timetable): the number of timetable rows
    row_idx,          \* number of timetable rows read so far
    row,              \* the row being processed
    session,          \* "Morning", "Evening", or "none" between rows
    state,            \* where _process_session stands for this session
    course_students,  \* course -> sorted roll numbers, in dict order
    allocator,        \* the session's RoomAllocator
    sorted_courses,   \* the courses still to be allocated, largest first
    allocated,        \* the allocate_course calls made in this session
    failed,           \* courses logged "Failed to allocate", with the count
    room_assignments, \* room -> course -> roll numbers, in dict order
    all_seating,      \* self.all_seating
    all_capacity,     \* self.all_capacity
    df,               \* the portal's uploaded table
    ordered_data,     \* the portal's rows sorted by CGPA, best first
    idx_position,     \* the portal's position in ordered_data
    results,          \* the portal's assignment records
    pref_matrix,      \* faculty -> number of students per preference rank
    stage             \* where the portal's Execute Assignment handler stands

config == <<rooms, strategy, buffer, enrollments, num_rows>>
locals == <<course_students, allocator, sorted_courses, allocated, failed,
            room_assignments>>
outputs == <<all_seating, all_capacity>>
portal == <<df, ordered_data, idx_position, results, pref_matrix, stage>>
scheduler == <<rooms, strategy, buffer, enrollments, num_rows, row_idx, row,
               session, state, course_students, allocator, sorted_courses,
               allocated, failed, room_assignments, all_seating, all_capacity>>
vars == <<rooms, strategy, buffer, enrollments, num_rows, row_idx, row, session,
          state, course_students, allocator, sorted_courses, allocated, failed,
          room_assignments, all_seating, all_capacity, df, ordered_data,
          idx_position, results, pref_matrix, stage>>

\* the portal with no file uploaded: "if uploaded:" is false
NoTable == [columns |-> <<>>, rows |-> <<>>]

PortalIdle ==
    /\ df = NoTable
    /\ ordered_data = <<>>
    /\ idx_position = 0
    /\ results = <<>>
    /\ pref_matrix = <<>>
    /\ stage = "no upload"

TerminalStates == {"SKIPPED", "ABORTED_CONFLICT", "ABORTED_CAPACITY",
                   "ABORTED_VIOLATION", "EMITTED"}

Init ==
    /\ PortalIdle
    /\ rooms \in Registries
    /\ strategy \in {"dense", "sparse"}
    /\ buffer \in 0..MaxBuffer
    /\ enrollments \in EnrollmentTables
    /\ num_rows = NumDates
    /\ row_idx = 0
    /\ row = NoRow
    /\ session = "none"
    /\ state = "ROWS"
    /\ course_students = <<>>
    /\ allocator = NoAllocator
    /\ sorted_courses = <<>>
    /\ allocated = <<>>
    /\ failed = <<>>
    /\ room_assignments = <<>>
    /\ all_seating = <<>>
    /\ all_capacity = {}

\* ExamScheduler.__init__: nothing read, the accumulators empty
InitProcessing ==
    /\ row_idx = 0
    /\ row = NoRow
    /\ session = "none"
    /\ state = "ROWS"
    /\ course_students = <<>>
    /\ allocator = NoAllocator
    /\ sorted_courses = <<>>
    /\ allocated = <<>>
    /\ failed = <<>>
    /\ room_assignments = <<>>
    /\ all_seating = <<>>
    /\ all_capacity = {}

(***************************************************************************)
(* ExamScheduler.process_all_dates                                         *)
(***************************************************************************)
\* the loop reads the next row; a row without a date is skipped
NextRow ==
    /\ state = "ROWS"
    /\ row_idx < num_rows
    /\ \E r \in Rows :
        /\ row' = r
        /\ row_idx' = row_idx + 1
        /\ IF r.Date = "NaT"
           THEN /\ session' = "none"
                /\ state' = "ROWS"
           ELSE /\ session' = "Morning"
                /\ state' = "NEW"
    /\ UNCHANGED <<portal, config, locals, outputs>>

\* a loop that an aborted session ends: the error leaves process_all_dates
SessionReturnsAbortStops ==
    /\ state \in TerminalStates
    /\ IF state \in {"ABORTED_CONFLICT", "ABORTED_CAPACITY", "ABORTED_VIOLATION"}
       THEN /\ session' = "none"
            /\ state' = "DONE"
       ELSE IF session = "Morning"
       THEN /\ session' = "Evening"
            /\ state' = "NEW"
       ELSE /\ session' = "none"
            /\ state' = "ROWS"
    /\ UNCHANGED <<portal, config, row_idx, row, locals, outputs>>

\* _process_session has returned: Evening follows Morning, the next row Evening
SessionReturns ==
    /\ state \in TerminalStates
    /\ IF session = "Morning"
       THEN /\ session' = "Evening"
            /\ state' = "NEW"
       ELSE /\ session' = "none"
            /\ state' = "ROWS"
    /\ UNCHANGED <<portal, config, row_idx, row, locals, outputs>>

\* after the last row the reports are written from the accumulators
GenerateReports ==
    /\ state = "ROWS"
    /\ row_idx = num_rows
    /\ state' = "DONE"
    /\ UNCHANGED <<portal, config, row_idx, row, session, locals, outputs>>

(***************************************************************************)
(* ExamScheduler._process_session                                          *)
(***************************************************************************)
\* self.enrollments[course_code == course]['rollno'].tolist()
Enrolled(table, course) ==
    LET rows_of == SelectSeq(table, LAMBDA e : e.course_code = course)
    IN  [i \in 1..Len(rows_of) |-> rows_of[i].rollno]

\* the dict course_students: a course listed twice keeps its first position
RECURSIVE CourseStudents(_, _)
CourseStudents(table, courses) ==
    IF courses = <<>> THEN <<>>
    ELSE LET before == CourseStudents(table, SubSeq(courses, 1, Len(courses) - 1))
             course == courses[Len(courses)]
         IN  IF \E i \in 1..Len(before) : before[i].course = course
             THEN before
             ELSE Append(before, [course |-> course,
                                  students |-> SortedRolls(Enrolled(table, course))])

\* lines 408-419: parse the cell and resolve the enrolments
Parse ==
    /\ state = "NEW"
    /\ LET courses == extract_courses(row[session])
       IN  IF courses = <<>>
           THEN /\ state' = "SKIPPED"
                /\ course_students' = <<>>
           ELSE /\ state' = "PARSED"
                /\ course_students' = CourseStudents(enrollments, courses)
    /\ sorted_courses' = <<>>
    /\ allocated' = <<>>
    /\ failed' = <<>>
    /\ room_assignments' = <<>>
    /\ UNCHANGED <<portal, config, row_idx, row, session, allocator, outputs>>

\* lines 421-423
CheckConflicts ==
    /\ state = "PARSED"
    /\ state' = IF check_conflicts(course_students)
                THEN "ABORTED_CONFLICT" ELSE "CHECKED"
    /\ UNCHANGED <<portal, config, row_idx, row, session, locals, outputs>>

SizeKey(item) == <<-Len(item.students)>>

\* the courses in the order of the dict, not sorted
SortCoursesUnsorted(items) == items

\* sorted(course_students.items(), key=len of the roll list, reverse=True)
SortCourses(items) == SortedByKey(items, [i \in 1..Len(items) |-> SizeKey(items[i])])

\* a total_students that takes the largest course for the demand
total_students_largest(items) ==
    IF items = <<>> THEN 0
    ELSE LET k == CHOOSE i \in 1..Len(items) :
                      \A j \in 1..Len(items) :
                          Len(items[j].students) <= Len(items[i].students)
         IN  Len(items[k].students)

total_students(items) == SumSeq([i \in 1..Len(items) |-> Len(items[i].students)])

\* a total_capacity that adds up the nominal capacities
total_capacity_nominal(al) ==
    SumSeq([i \in 1..Len(al.rooms) |-> al.rooms[i].ExamCapacity])

total_capacity(al) ==
    SumSeq([i \in 1..Len(al.rooms) |-> al.rooms[i].effective_capacity])

\* an allocator built once and kept for the following sessions
ReusedAllocator ==
    IF allocator.rooms # <<>> THEN allocator
    ELSE NewAllocator(rooms, strategy, buffer)

\* lines 428-429: the room records and the allocator of this session
FreshAllocator == NewAllocator(rooms, strategy, buffer)

\* lines 425-445: a new allocator, then the aggregate capacity check
CheckCapacity ==
    /\ state = "CHECKED"
    /\ LET al == FreshAllocator
       IN  /\ allocator' = al
           /\ IF total_students(course_students) > total_capacity(al)
              THEN /\ state' = "ABORTED_CAPACITY"
                   /\ sorted_courses' = <<>>
              ELSE /\ state' = "CONTINUE"
                   /\ sorted_courses' = SortCourses(course_students)
    /\ UNCHANGED <<portal, config, row_idx, row, session, course_students, allocated,
                   failed, room_assignments, outputs>>

\* room_assignments[room_id][course].append(sid) for the slices of one course
RECURSIVE AddAssignments(_, _, _)
AddAssignments(assignments, course, allocations) ==
    IF allocations = <<>> THEN assignments
    ELSE LET a == Head(allocations)
             hit == {i \in 1..Len(assignments) :
                        /\ assignments[i].room = a.room.RoomNo
                        /\ assignments[i].course = course}
             added ==
                 IF hit # {}
                 THEN [i \in 1..Len(assignments) |->
                         IF i \in hit
                         THEN [assignments[i] EXCEPT !.students = @ \o a.students]
                         ELSE assignments[i]]
                 ELSE IF a.students = <<>> THEN assignments
                 ELSE Append(assignments, [room |-> a.room.RoomNo, course |-> course,
                                           students |-> a.students])
         IN  AddAssignments(added, course, Tail(allocations))

\* lines 447-456: one turn of the loop over sorted_courses
AllocateCourse ==
    /\ state = "CONTINUE"
    /\ sorted_courses # <<>>
    /\ LET item == Head(sorted_courses)
           result == allocate_course(allocator, item.course, item.students)
       IN  /\ allocator' = result.al
           /\ room_assignments' =
                  AddAssignments(room_assignments, item.course, result.allocations)
           /\ allocated' = Append(allocated, item.course)
           /\ failed' = IF result.remaining # <<>>
                        THEN Append(failed, [course |-> item.course,
                                             count |-> Len(result.remaining)])
                        ELSE failed
    /\ sorted_courses' = Tail(sorted_courses)
    /\ state' = IF Tail(sorted_courses) = <<>> THEN "ALLOCATED" ELSE "CONTINUE"
    /\ UNCHANGED <<portal, config, row_idx, row, session, course_students, outputs>>

\* the rooms of room_assignments in dict order
RECURSIVE UsedRooms(_)
UsedRooms(assignments) ==
    IF assignments = <<>> THEN <<>>
    ELSE LET before == UsedRooms(SubSeq(assignments, 1, Len(assignments) - 1))
             r == assignments[Len(assignments)].room
         IN  IF r \in SeqToSet(before) THEN before ELSE Append(before, r)

RoomInfo(al, room_id) ==
    al.rooms[CHOOSE i \in 1..Len(al.rooms) :
                /\ al.rooms[i].RoomNo = room_id
                /\ \A j \in 1..(i - 1) : al.rooms[j].RoomNo # room_id]

\* the records _generate_outputs appends to all_seating for one session
SeatingRecords(date, sess, assignments, al) ==
    LET used == UsedRooms(assignments)
        OfRoom(r) == SelectSeq(assignments, LAMBDA a : a.room = r)
        Rec(a) == [Date |-> date, Session |-> sess, Course |-> a.course,
                   Room |-> a.room,
                   Building |-> RoomInfo(al, a.room).Block,
                   RoomCapacity |-> RoomInfo(al, a.room).ExamCapacity,
                   Count |-> Len(a.students),
                   Rolls |-> SortedRolls(a.students)]
        RECURSIVE Walk(_)
        Walk(rs) == IF rs = <<>> THEN <<>>
                    ELSE LET ofr == OfRoom(Head(rs))
                         IN  [i \in 1..Len(ofr) |-> Rec(ofr[i])] \o Walk(Tail(rs))
    IN  Walk(used)

\* a snapshot that lists every room of the registry
CapacityRecordsAllRooms(date, sess, assignments, al) ==
    {[Date |-> date, Session |-> sess, RoomNo |-> al.rooms[i].RoomNo,
      ExamCapacity |-> al.rooms[i].ExamCapacity,
      Block |-> al.rooms[i].Block,
      Allotted |-> al.usage[al.rooms[i].RoomNo],
      Vacant |-> al.rooms[i].ExamCapacity - al.usage[al.rooms[i].RoomNo]] :
        i \in 1..Len(al.rooms)}

\* the records _generate_outputs appends to all_capacity for one session
CapacityRecords(date, sess, assignments, al) ==
    {[Date |-> date, Session |-> sess, RoomNo |-> r,
      ExamCapacity |-> RoomInfo(al, r).ExamCapacity,
      Block |-> RoomInfo(al, r).Block,
      Allotted |-> al.usage[r],
      Vacant |-> RoomInfo(al, r).ExamCapacity - al.usage[r]] :
        r \in SeqToSet(UsedRooms(assignments))}

\* a session that is dropped as well when a course could not be seated in full
CheckViolationsAllOrNothing ==
    /\ state = "ALLOCATED"
    /\ IF check_capacity_violations(allocator) # {} \/ failed # <<>>
       THEN /\ state' = "ABORTED_VIOLATION"
            /\ UNCHANGED outputs
       ELSE /\ state' = "EMITTED"
            /\ all_seating' = all_seating \o
                   SeatingRecords(row_idx, session, room_assignments, allocator)
            /\ all_capacity' = all_capacity \cup
                   CapacityRecords(row_idx, session, room_assignments, allocator)
    /\ UNCHANGED <<portal, config, row_idx, row, session, locals>>

\* lines 458-466: the violation check, then _generate_outputs
CheckViolations ==
    /\ state = "ALLOCATED"
    /\ IF check_capacity_violations(allocator) # {}
       THEN /\ state' = "ABORTED_VIOLATION"
            /\ UNCHANGED outputs
       ELSE /\ state' = "EMITTED"
            /\ all_seating' = all_seating \o
                   SeatingRecords(row_idx, session, room_assignments, allocator)
            /\ all_capacity' = all_capacity \cup
                   CapacityRecords(row_idx, session, room_assignments, allocator)
    /\ UNCHANGED <<portal, config, row_idx, row, session, locals>>

Next ==
    \/ NextRow
    \/ SessionReturns
    \/ GenerateReports
    \/ Parse
    \/ CheckConflicts
    \/ CheckCapacity
    \/ AllocateCourse
    \/ CheckViolations

Spec == Init /\ [][Next]_vars

\* the runs whose registry has no building id that Python takes for false
InitNonZeroBlocks ==
    /\ Init
    /\ \A i \in 1..Len(rooms) : rooms[i].Block # 0

SpecNonZeroBlocks == InitNonZeroBlocks /\ [][Next]_vars

\* _process_session is straight-line code: a session that is under way does
\* not stay at one position for ever
SessionAdvances ==
    /\ state \in {"NEW", "PARSED", "CHECKED", "CONTINUE", "ALLOCATED"}
    /\ state' \in {"PARSED", "CHECKED", "CONTINUE", "ALLOCATED"} \cup TerminalStates

\* Batches of one more date, over registries of one building whose first room
\* has no seats.  process_all_dates is a sequential loop: the next row is
\* read, the next session is opened and the reports are written whenever the
\* loop stands there, and a session under way advances.
InitBatch ==
    /\ rooms \in {reg \in Registries :
                    /\ reg[1].ExamCapacity = 0
                    /\ reg[2].ExamCapacity # 0
                    /\ \A i \in 1..Len(reg) : reg[i].Block = 1}
    /\ strategy \in {"dense", "sparse"}
    /\ buffer \in 0..MaxBuffer
    /\ enrollments \in {EnrollmentTable(a, 2, FALSE) : a \in 0..NumCands}
    /\ num_rows = NumDates + 1
    /\ InitProcessing
    /\ PortalIdle

FairBatchSpec ==
    /\ InitBatch
    /\ [][Next]_vars
    /\ WF_vars(NextRow)
    /\ WF_vars(SessionReturns)
    /\ WF_vars(GenerateReports)
    /\ WF_state(SessionAdvances)

\* Two disjoint courses of 25 candidates under the sparse strategy; the first
\* room has effective capacity 40, the further rooms (none, one or two) have
\* the effective capacities of one of the lists.
ScenarioRoomNos == RoomNos \o << <<"3", "1", "0", "5">> >>

ScenarioBTable ==
    [i \in 1..25 |-> [course_code |-> CourseA, rollno |-> i]]
    \o [i \in 1..25 |-> [course_code |-> CourseB, rollno |-> 25 + i]]

ScenarioBExtraRooms == {<<>>, <<4>>, <<10>>, <<20>>, <<5, 5>>}

InitScenarioB ==
    /\ strategy = "sparse"
    /\ buffer \in 0..MaxBuffer
    /\ \E extra \in ScenarioBExtraRooms :
         \E blocks \in [1..(1 + Len(extra)) -> Blocks] :
            rooms = [i \in 1..(1 + Len(extra)) |->
                        [RoomNo |-> ScenarioRoomNos[i],
                         ExamCapacity |->
                             (IF i = 1 THEN 40 ELSE extra[i - 1]) + buffer,
                         Block |-> blocks[i]]]
    /\ enrollments = ScenarioBTable
    /\ num_rows = NumDates
    /\ InitProcessing
    /\ PortalIdle

SpecScenarioB == InitScenarioB /\ [][Next]_vars

\* Registries of two rooms of three seats in one building whose identifiers
\* are drawn from a pool: five digits starting with 10, four digits, letters,
\* blanks around or inside, fewer than four characters, none at all.
FloorRoomNos ==
    { <<"1", "0", "0", "4", "2">>,
      <<"2", "0", "3", "1">>,
      <<"A", "B">>,
      <<" ", "5", "0", "0", "1", " ">>,
      <<"1", "0", "4">>,
      <<"1", "0", "a", "4", "2">>,
      <<"1", "0", "0", "4">>,
      <<"9", "9", "9", "9", "9">>,
      <<"A", "1", "2", "3">>,
      <<"1", "0", "0", " ", "1">>,
      <<>>,
      <<" ", " ", " ">>,
      <<"1", "0">> }

InitFloors ==
    /\ strategy = "dense"
    /\ buffer = 0
    /\ \E id1, id2 \in FloorRoomNos :
        /\ id1 # id2
        /\ rooms = << [RoomNo |-> id1, ExamCapacity |-> 3, Block |-> 1],
                      [RoomNo |-> id2, ExamCapacity |-> 3, Block |-> 1] >>
    /\ enrollments \in {EnrollmentTable(a, 0, FALSE) : a \in 1..NumCands}
    /\ num_rows = NumDates
    /\ InitProcessing
    /\ PortalIdle

SpecFloors == InitFloors /\ [][Next]_vars

\* Registries of three rooms on the floors 2, 10 and 5, with 3 to 5 seats
\* each, spread over the buildings 1 and 2; one timetable row, no buffer.
LayoutRoomNos ==
    << <<"2", "0", "3", "1">>, <<"1", "0", "0", "4", "2">>, <<"5", "1", "0", "5">> >>

InitLayout ==
    /\ strategy \in {"dense", "sparse"}
    /\ buffer = 0
    /\ \E caps \in [1..Len(LayoutRoomNos) -> {3, 4, 5}] :
         \E blocks \in [1..Len(LayoutRoomNos) -> {1, 2}] :
            rooms = [i \in 1..Len(LayoutRoomNos) |->
                        [RoomNo |-> LayoutRoomNos[i],
                         ExamCapacity |-> caps[i],
                         Block |-> blocks[i]]]
    /\ enrollments \in {EnrollmentTable(a, b, FALSE) : a \in 0..NumCands, b \in {0, 2}}
    /\ num_rows = 1
    /\ InitProcessing
    /\ PortalIdle

SpecLayout == InitLayout /\ [][Next]_vars

\* Timetables whose cells are missing, empty, blank or the marker in several
\* spellings, next to cells that name courses; one building of two rooms.
CellEmpty == Str(<<>>)
CellBlank == Str(<<" ", " ">>)
CellMarkerLower == Str(<<"n", "o", " ", "e", "x", "a", "m">>)
CellMarkerUpper == Str(<<"N", "O", " ", "E", "X", "A", "M">>)
CellMarkerMixed == Str(<<"n", "O", " ", "e", "X", "a", "M">>)
CellMarkerPadded == Str(<<" ", "n", "o", " ", "E", "X", "A", "M", " ", " ">>)

SessionCells ==
    {NaN, CellEmpty, CellBlank, CellNoExam, CellMarkerLower, CellMarkerUpper,
     CellMarkerMixed, CellMarkerPadded, CellA, CellBA}

CellRows ==
    {[Date |-> "date", Morning |-> m, Evening |-> e] :
        m \in SessionCells, e \in SessionCells}

\* the loop reads the next row of such a timetable
NextRowOfCells ==
    /\ state = "ROWS"
    /\ row_idx < num_rows
    /\ \E r \in CellRows :
        /\ row' = r
        /\ row_idx' = row_idx + 1
        /\ IF r.Date = "NaT"
           THEN /\ session' = "none"
                /\ state' = "ROWS"
           ELSE /\ session' = "Morning"
                /\ state' = "NEW"
    /\ UNCHANGED <<portal, config, locals, outputs>>

NextCells ==
    \/ NextRowOfCells
    \/ SessionReturns
    \/ GenerateReports
    \/ Parse
    \/ CheckConflicts
    \/ CheckCapacity
    \/ AllocateCourse
    \/ CheckViolations

InitCells ==
    /\ strategy = "dense"
    /\ buffer \in 0..MaxBuffer
    /\ rooms = << [RoomNo |-> RoomNos[1], ExamCapacity |-> 3, Block |-> 1],
                  [RoomNo |-> RoomNos[2], ExamCapacity |-> 5, Block |-> 1] >>
    /\ enrollments \in {EnrollmentTable(a, b, FALSE) : a \in 1..NumCands, b \in {0, 2}}
    /\ num_rows = NumDates
    /\ InitProcessing
    /\ PortalIdle

SpecCells == InitCells /\ [][NextCells]_vars

\* Timetables with a row whose Date is a text and not a date: line 384 calls
\* strftime on it, which raises.
ErrorRows == Rows \cup {[Date |-> "text", Morning |-> CellA, Evening |-> CellA]}

\* lines 378-392: the loop reads the next row; a row without a date is
\* skipped, a Date that is no date raises inside the try block
NextRowChecked ==
    /\ state = "ROWS"
    /\ row_idx < num_rows
    /\ \E r \in ErrorRows :
        /\ row' = r
        /\ row_idx' = row_idx + 1
        /\ IF r.Date = "NaT"
           THEN /\ session' = "none"
                /\ state' = "ROWS"
           ELSE IF r.Date = "text"
           THEN /\ session' = "none"
                /\ state' = "ROW_ERROR"
           ELSE /\ session' = "Morning"
                /\ state' = "NEW"
    /\ UNCHANGED <<portal, config, locals, outputs>>

\* lines 472-497: _generate_outputs raises when the folder or the sheet of
\* the k-th (room, course) pair cannot be written; the records of the pairs
\* before it are in all_seating already, all_capacity is not reached
WriteFails ==
    /\ state = "ALLOCATED"
    /\ check_capacity_violations(allocator) = {}
    /\ LET recs == SeatingRecords(row_idx, session, room_assignments, allocator)
       IN  /\ recs # <<>>
           /\ \E k \in 1..Len(recs) :
                 all_seating' = all_seating \o SubSeq(recs, 1, k - 1)
    /\ state' = "ROW_ERROR"
    /\ UNCHANGED <<portal, config, row_idx, row, session, locals, all_capacity>>

\* a loop that lets the error out of process_all_dates
RowErrorStops ==
    /\ state = "ROW_ERROR"
    /\ state' = "DONE"
    /\ session' = "none"
    /\ UNCHANGED <<portal, config, row_idx, row, locals, outputs>>

\* lines 394-396: the error is caught and logged, the loop continues with the
\* next row
RowErrorCaught ==
    /\ state = "ROW_ERROR"
    /\ state' = "ROWS"
    /\ session' = "none"
    /\ UNCHANGED <<portal, config, row_idx, row, locals, outputs>>

NextErrors ==
    \/ NextRowChecked
    \/ RowErrorCaught
    \/ WriteFails
    \/ SessionReturns
    \/ GenerateReports
    \/ Parse
    \/ CheckConflicts
    \/ CheckCapacity
    \/ AllocateCourse
    \/ CheckViolations

\* Batches of one more date over one building of two rooms.  The loop is
\* sequential: a row is read, an error is handled, a session is opened and
\* the reports are written whenever the loop stands there, and a session
\* under way advances or fails.
InitErrors ==
    /\ strategy = "dense"
    /\ buffer \in 0..MaxBuffer
    /\ rooms = << [RoomNo |-> RoomNos[1], ExamCapacity |-> 3, Block |-> 1],
                  [RoomNo |-> RoomNos[2], ExamCapacity |-> 5, Block |-> 1] >>
    /\ enrollments \in {EnrollmentTable(a, 2, FALSE) : a \in 0..NumCands}
    /\ num_rows = NumDates + 1
    /\ InitProcessing
    /\ PortalIdle

FairErrorSpec ==
    /\ InitErrors
    /\ [][NextErrors]_vars
    /\ WF_vars(NextRowChecked)
    /\ WF_vars(RowErrorCaught)
    /\ WF_vars(SessionReturns)
    /\ WF_vars(GenerateReports)
    /\ WF_state(SessionAdvances)

(***************************************************************************)
(* The faculty assignment portal: the Execute Assignment handler.          *)
(***************************************************************************)
MaxStudents == 3
PrefSlots == 18

FixedColumns == {"Roll", "Name", "Email", "CGPA"}

\* the faculty names in the order of Python's string comparison
FacultyNames == <<"FA", "FB", "FC">>
NameIndex(f) == CHOOSE i \in 1..Len(FacultyNames) : FacultyNames[i] = f

\* the faculty columns of the uploaded tables, in the order of the file
FacultyColumns ==
    {<<>>, <<"FA">>, <<"FA", "FB">>, <<"FB", "FA">>, <<"FB", "FC", "FA">>}

\* the ranks a row gives to the faculty columns: any ranks for up to two
\* columns, a ranking without ties for more
PreferenceRows(cols) ==
    {p \in [SeqToSet(cols) -> 1..Len(cols)] :
        Len(cols) > 2 => \A f, g \in SeqToSet(cols) : p[f] = p[g] => f = g}

\* The uploaded tables: the fixed columns and the faculty columns, and up to
\* MaxStudents rows with the rolls 1, 2, ... in the order of the file.  Name
\* and Email are copied to the records unchanged and are left out.
Table(cols, cg, pr) ==
    [columns |-> <<"Roll", "Name", "Email", "CGPA">> \o cols,
     rows |-> [i \in 1..Len(cg) |-> [Roll |-> i, CGPA |-> cg[i], rank |-> pr[i]]]]

\* line 33: the columns that are not Roll, Name, Email or CGPA
fac_list(table) == SelectSeq(table.columns, LAMBDA c : c \notin FixedColumns)

\* line 37: df.sort_values(by='CGPA', ascending=False); the sort is not
\* stable, so rows of equal CGPA come in any order
OrderedData(table) ==
    LET n == Len(table.rows)
    IN  {[i \in 1..n |-> table.rows[perm[i]]] :
            perm \in {q \in [1..n -> 1..n] :
                        /\ \A i, j \in 1..n : q[i] = q[j] => i = j
                        /\ \A i \in 1..(n - 1) :
                              table.rows[q[i]].CGPA >= table.rows[q[i + 1]].CGPA}}

\* lines 56-60: the (rank, faculty) pairs of a row, sorted
choice_map(record, facs) ==
    SortedByKey(facs, [i \in 1..Len(facs) |->
                          <<record.rank[facs[i]], NameIndex(facs[i])>>])

\* the first faculty of a list that is not in used_facs, or "None"
FirstFree(facs, used_facs) ==
    IF \A i \in 1..Len(facs) : facs[i] \in used_facs THEN "None"
    ELSE facs[CHOOSE i \in 1..Len(facs) :
                 /\ facs[i] \notin used_facs
                 /\ \A j \in 1..(i - 1) : facs[j] \in used_facs]

\* pref_matrix[f][rank - 1] += 1, with Python's index from the end for -1
CountPreference(matrix, f, rank) ==
    LET slot == IF rank >= 1 THEN rank ELSE PrefSlots + rank
    IN  [matrix EXCEPT ![f] = [@ EXCEPT ![slot] = @ + 1]]

\* lines 54-92: one row of the cohort.  st = [used_facs, results, pref_matrix].
AssignRecord(st, record, facs) ==
    LET by_rank == FirstFree(choice_map(record, facs), st.used_facs)
        selected_fac ==
            IF by_rank # "None" THEN by_rank ELSE FirstFree(facs, st.used_facs)
    IN  IF selected_fac = "None" THEN st
        ELSE [used_facs |-> st.used_facs \cup {selected_fac},
              results |-> Append(st.results,
                                 [Roll |-> record.Roll, CGPA |-> record.CGPA,
                                  Allocated |-> selected_fac,
                                  Preference_Rank |-> record.rank[selected_fac]]),
              pref_matrix |-> CountPreference(st.pref_matrix, selected_fac,
                                              record.rank[selected_fac])]

\* the loop over the rows of current_cohort
RECURSIVE AssignCohort(_, _, _)
AssignCohort(st, cohort, facs) ==
    IF cohort = <<>> THEN st
    ELSE AssignCohort(AssignRecord(st, Head(cohort), facs), Tail(cohort), facs)

\* lines 30-45: the button is pressed; the table is sorted and the storage
\* structures are set up
ExecuteAssignment ==
    /\ stage = "uploaded"
    /\ ordered_data' \in OrderedData(df)
    /\ results' = <<>>
    /\ pref_matrix' = [f \in SeqToSet(fac_list(df)) |-> [i \in 1..PrefSlots |-> 0]]
    /\ idx_position' = 0
    /\ stage' = "loop"
    /\ UNCHANGED <<df, scheduler>>

\* lines 47-94: one turn of the while loop, a cohort
ProcessCohort ==
    /\ stage = "loop"
    /\ idx_position < Len(ordered_data)
    /\ LET fac_count == Len(fac_list(df))
           cohort_limit == Min(fac_count, Len(ordered_data) - idx_position)
           cohort_end == idx_position + cohort_limit
           current_cohort == SubSeq(ordered_data, idx_position + 1, cohort_end)
           st == AssignCohort([used_facs |-> {}, results |-> results,
                               pref_matrix |-> pref_matrix],
                              current_cohort, fac_list(df))
       IN  /\ results' = st.results
           /\ pref_matrix' = st.pref_matrix
           /\ idx_position' = cohort_end
    /\ UNCHANGED <<df, ordered_data, stage, scheduler>>

\* lines 96-113: the loop has ended; the output tables are built, and
\* groupby('Allocated') raises on a table without records
BuildOutput ==
    /\ stage = "loop"
    /\ idx_position >= Len(ordered_data)
    /\ stage' = IF results = <<>> THEN "error" ELSE "processed"
    /\ UNCHANGED <<df, ordered_data, idx_position, results, pref_matrix, scheduler>>

NextPortal ==
    \/ ExecuteAssignment
    \/ ProcessCohort
    \/ BuildOutput

\* a table is uploaded and the scheduler is not run
InitPortal ==
    /\ \E cols \in FacultyColumns :
         \E n \in 0..MaxStudents :
            \E cg \in [1..n -> {7, 8}] :
               \E pr \in [1..n -> PreferenceRows(cols)] :
                  df = Table(cols, cg, pr)
    /\ ordered_data = <<>>
    /\ idx_position = 0
    /\ results = <<>>
    /\ pref_matrix = <<>>
    /\ stage = "uploaded"
    /\ rooms = <<>>
    /\ strategy = "dense"
    /\ buffer = 0
    /\ enrollments = <<>>
    /\ num_rows = 0
    /\ row_idx = 0
    /\ row = NoRow
    /\ session = "none"
    /\ state = "ROWS"
    /\ course_students = <<>>
    /\ allocator = NoAllocator
    /\ sorted_courses = <<>>
    /\ allocated = <<>>
    /\ failed = <<>>
    /\ room_assignments = <<>>
    /\ all_seating = <<>>
    /\ all_capacity = {}

\* lines 47-49 and 94: what a turn of the while loop does to idx_position
CohortLoopTurn ==
    /\ stage = "loop"
    /\ idx_position < Len(ordered_data)
    /\ idx_position' = idx_position + Min(Len(fac_list(df)),
                                          Len(ordered_data) - idx_position)

\* The handler is one sequential script run: once the button is pressed the
\* loop takes its next turn and the output is built when the loop has ended.
\* A turn that leaves idx_position where it was changes nothing, and the
\* script stays in the loop.
FairPortalSpec ==
    /\ InitPortal
    /\ [][NextPortal]_vars
    /\ WF_idx_position(CohortLoopTurn)
    /\ WF_vars(BuildOutput)

\* the uploaded tables with at least one faculty column
InitPortalWithFaculty ==
    /\ InitPortal
    /\ fac_list(df) # <<>>

FairPortalWithFacultySpec ==
    /\ InitPortalWithFaculty
    /\ [][NextPortal]_vars
    /\ WF_idx_position(CohortLoopTurn)
    /\ WF_vars(BuildOutput)

(***************************************************************************)
(* Properties.                                                             *)
(***************************************************************************)
\* the seating-summary records of the session being processed
SessionSeating ==
    SelectSeq(all_seating, LAMBDA r : r.Date = row_idx /\ r.Session = session)

SessionCapacity ==
    {r \in all_capacity : r.Date = row_idx /\ r.Session = session}

\* candidates the session's output seats in a room, over all courses
AllottedInRoom(room_id) ==
    LET recs == SelectSeq(SessionSeating, LAMBDA r : r.Room = room_id)
    IN  SumSeq([i \in 1..Len(recs) |-> recs[i].Count])

\* candidates of one course the session's output seats in a room
AllottedInRoomOf(room_id, course) ==
    LET recs == SelectSeq(SessionSeating,
                          LAMBDA r : r.Room = room_id /\ r.Course = course)
    IN  SumSeq([i \in 1..Len(recs) |-> recs[i].Count])

EffectiveCapacity(i) == rooms[i].ExamCapacity - buffer

SessionCourses == {course_students[i].course : i \in 1..Len(course_students)}

\* C1: in every emitted session, for every room the candidates allotted to
\* it over all courses are at most the room's effective capacity (nominal
\* capacity minus buffer), under both strategies.
C1_RoomWithinEffectiveCapacity ==
    state = "EMITTED" =>
        \A i \in 1..Len(rooms) :
            AllottedInRoom(rooms[i].RoomNo) <= EffectiveCapacity(i)

\* an emitted session in which a room is filled to its effective capacity by
\* two courses
C1_Witness ==
    /\ state = "EMITTED"
    /\ \E i \in 1..Len(rooms) :
        /\ EffectiveCapacity(i) > 0
        /\ AllottedInRoom(rooms[i].RoomNo) = EffectiveCapacity(i)
        /\ AllottedInRoomOf(rooms[i].RoomNo, CourseA) > 0
        /\ AllottedInRoomOf(rooms[i].RoomNo, CourseB) > 0

\* C2: in every emitted session under the sparse strategy, for every (room,
\* course) the candidates of the course allotted to the room are at most
\* floor(0.5 x effective capacity of the room).
C2_SparseCourseLimit ==
    (state = "EMITTED" /\ strategy = "sparse") =>
        \A i \in 1..Len(rooms) : \A c \in SessionCourses :
            AllottedInRoomOf(rooms[i].RoomNo, c) <= EffectiveCapacity(i) \div 2

\* an emitted sparse session in which a course with more candidates than the
\* limit of a room holds exactly the limit in that room
C2_Witness ==
    /\ state = "EMITTED"
    /\ strategy = "sparse"
    /\ \E i \in 1..Len(rooms) : \E k \in 1..Len(course_students) :
        /\ EffectiveCapacity(i) \div 2 > 0
        /\ Len(course_students[k].students) > EffectiveCapacity(i) \div 2
        /\ AllottedInRoomOf(rooms[i].RoomNo, course_students[k].course)
               = EffectiveCapacity(i) \div 2

\* C3: in every emitted session no candidate id appears in the rosters of
\* two distinct courses.
C3_NoCandidateInTwoCourses ==
    state = "EMITTED" =>
        \A i, j \in 1..Len(SessionSeating) :
            SessionSeating[i].Course # SessionSeating[j].Course =>
                SeqToSet(SessionSeating[i].Rolls)
                    \cap SeqToSet(SessionSeating[j].Rolls) = {}

\* an emitted session with rosters of two distinct courses
C3_Witness ==
    /\ state = "EMITTED"
    /\ \E i, j \in 1..Len(SessionSeating) :
        /\ SessionSeating[i].Course # SessionSeating[j].Course
        /\ SessionSeating[i].Rolls # <<>>
        /\ SessionSeating[j].Rolls # <<>>

\* the candidates enrolled in a course of the session
EnrolledIn(k) == SeqToSet(course_students[k].students)

\* the rooms in which the session's output seats candidate sid for a course
RoomsOfCandidate(sid, course) ==
    {SessionSeating[i].Room : i \in {j \in 1..Len(SessionSeating) :
        /\ SessionSeating[j].Course = course
        /\ sid \in SeqToSet(SessionSeating[j].Rolls)}}

\* C4: in every emitted session every candidate enrolled in a course of the
\* session is assigned to exactly one room: none is missing from the output
\* and none appears in two rooms.
C4_EveryCandidateInExactlyOneRoom ==
    state = "EMITTED" =>
        \A k \in 1..Len(course_students) : \A sid \in EnrolledIn(k) :
            Cardinality(RoomsOfCandidate(sid, course_students[k].course)) = 1

\* some candidate enrolled in two distinct courses of the session
SessionHasConflict ==
    \E i, j \in 1..Len(course_students) :
        /\ course_students[i].course # course_students[j].course
        /\ EnrolledIn(i) \cap EnrolledIn(j) # {}

\* the session has got past the clash check
PastConflictCheck ==
    state \in {"ABORTED_CONFLICT", "CHECKED", "ABORTED_CAPACITY", "CONTINUE",
               "ALLOCATED", "ABORTED_VIOLATION", "EMITTED"}

SessionHasNoRecords == SessionSeating = <<>> /\ SessionCapacity = {}

\* C5: if a candidate is enrolled in two courses of the session, the session
\* ends in ABORTED_CONFLICT, allocate_course is called for none of its
\* courses, and the seating and capacity summaries hold no record of it.
C5_ConflictAbortsSession ==
    (PastConflictCheck /\ SessionHasConflict) =>
        /\ state = "ABORTED_CONFLICT"
        /\ allocated = <<>>
        /\ room_assignments = <<>>
        /\ SessionHasNoRecords

\* an Evening session aborted for a clash after the Morning session of the
\* same date was emitted with records
C5_Witness ==
    /\ state = "ABORTED_CONFLICT"
    /\ SessionHasConflict
    /\ session = "Evening"
    /\ all_seating # <<>>

TotalCandidates ==
    SumSeq([k \in 1..Len(course_students) |-> Len(course_students[k].students)])

SumEffectiveCapacity ==
    SumSeq([i \in 1..Len(rooms) |-> EffectiveCapacity(i)])

\* the session has got past the aggregate capacity check
PastCapacityCheck ==
    state \in {"ABORTED_CAPACITY", "CONTINUE", "ALLOCATED", "ABORTED_VIOLATION",
               "EMITTED"}

\* C6: a conflict-free session whose candidates outnumber the sum of the
\* effective capacities ends in ABORTED_CAPACITY before any allocate_course
\* call and with no records; one whose candidates are as many as the sum or
\* fewer proceeds to allocation.
C6_CapacityCheck ==
    PastCapacityCheck =>
        /\ ~SessionHasConflict
        /\ (TotalCandidates > SumEffectiveCapacity) <=> (state = "ABORTED_CAPACITY")
        /\ state = "ABORTED_CAPACITY" =>
               /\ allocated = <<>>
               /\ room_assignments = <<>>
               /\ SessionHasNoRecords
        /\ state \in {"ALLOCATED", "ABORTED_VIOLATION", "EMITTED"} =>
               Len(allocated) = Len(course_students)

\* a session with exactly as many candidates as effective seats has had its
\* courses allocated
C6_Witness ==
    /\ state = "ALLOCATED"
    /\ buffer > 0
    /\ TotalCandidates > 0
    /\ TotalCandidates = SumEffectiveCapacity
    /\ allocated # <<>>

\* a session short of one seat is aborted
C6_WitnessShortfall ==
    /\ state = "ABORTED_CAPACITY"
    /\ TotalCandidates = SumEffectiveCapacity + 1

\* C7: the post-allocation violation check never fires: ABORTED_VIOLATION is
\* unreachable for every room registry and every buffer, a buffer larger
\* than a room's nominal capacity included.
C7_ViolationUnreachable == state # "ABORTED_VIOLATION"

\* some room of the session's allocator is used beyond its effective capacity
UsageExceedsEffective ==
    \E i \in 1..Len(rooms) :
        /\ rooms[i].RoomNo \in DOMAIN allocator.usage
        /\ allocator.usage[rooms[i].RoomNo] > EffectiveCapacity(i)

\* C8: when the violation check finds a room whose usage exceeds its
\* effective capacity, the session ends in ABORTED_VIOLATION and its
\* placements are discarded: nothing is appended to the seating summary or
\* the capacity summary.
C8_ViolationDiscardsSession ==
    [][(state = "ALLOCATED" /\ UsageExceedsEffective) =>
          /\ state' = "ABORTED_VIOLATION"
          /\ all_seating' = all_seating
          /\ all_capacity' = all_capacity]_vars

\* a session with placements made that ended in ABORTED_VIOLATION
C8_Witness ==
    /\ state = "ABORTED_VIOLATION"
    /\ UsageExceedsEffective
    /\ room_assignments # <<>>
    /\ SessionHasNoRecords

\* candidates placed in a room so far in this session
PlacedInRoom(room_id) ==
    LET recs == SelectSeq(room_assignments, LAMBDA a : a.room = room_id)
    IN  SumSeq([i \in 1..Len(recs) |-> Len(recs[i].students)])

PlacedInRoomOf(room_id, course) ==
    LET recs == SelectSeq(room_assignments,
                          LAMBDA a : a.room = room_id /\ a.course = course)
    IN  SumSeq([i \in 1..Len(recs) |-> Len(recs[i].students)])

\* C9: each session has a fresh usage state: at its start every room's usage
\* and every (room, course) usage is 0 and every effective capacity is the
\* nominal capacity minus the buffer, whatever earlier sessions allocated;
\* the usage counts only the placements of the session itself.
C9_FreshUsagePerSession ==
    PastCapacityCheck =>
        /\ Len(allocator.rooms) = Len(rooms)
        /\ \A i \in 1..Len(rooms) :
            LET r == rooms[i].RoomNo
            IN  /\ allocator.rooms[i].effective_capacity = EffectiveCapacity(i)
                /\ allocator.usage[r] = PlacedInRoom(r)
                /\ \A c \in SessionCourses :
                       TrackerGet(allocator.course_tracker, <<r, c>>)
                           = IF strategy = "sparse" THEN PlacedInRoomOf(r, c) ELSE 0
        /\ allocated = <<>> =>
               /\ \A i \in 1..Len(rooms) : allocator.usage[rooms[i].RoomNo] = 0
               /\ allocator.course_tracker = <<>>

\* the Evening session starts with no usage after the Morning session of the
\* date seated candidates
C9_Witness ==
    /\ session = "Evening"
    /\ state = "CONTINUE"
    /\ allocated = <<>>
    /\ TotalCandidates > 0
    /\ \E i \in 1..Len(all_seating) :
        /\ all_seating[i].Date = row_idx
        /\ all_seating[i].Session = "Morning"
        /\ all_seating[i].Count > 0
    /\ \A i \in 1..Len(rooms) : allocator.usage[rooms[i].RoomNo] = 0

\* C10: a session with a non-empty course list goes NEW -> PARSED -> clash
\* check -> capacity check -> allocation -> violation check and ends in one
\* of ABORTED_CONFLICT, ABORTED_CAPACITY, ABORTED_VIOLATION, EMITTED; the
\* clash check is decided before the capacity check, and records are
\* appended to the accumulators only on entering EMITTED.
C10_SessionStateMachine ==
    [][/\ state = "NEW" =>
              /\ state' \in {"PARSED", "SKIPPED"}
              /\ (state' = "PARSED") <=> (extract_courses(row[session]) # <<>>)
       /\ state = "PARSED" =>
              /\ state' \in {"ABORTED_CONFLICT", "CHECKED"}
              /\ SessionHasConflict => state' = "ABORTED_CONFLICT"
       /\ state = "CHECKED" => state' \in {"ABORTED_CAPACITY", "CONTINUE"}
       /\ state = "CONTINUE" => state' \in {"CONTINUE", "ALLOCATED"}
       /\ state = "ALLOCATED" => state' \in {"ABORTED_VIOLATION", "EMITTED"}
       /\ state \in TerminalStates =>
              /\ state' \in {"NEW", "ROWS"}
              /\ <<row_idx', session'>> # <<row_idx, session>>
       /\ <<all_seating', all_capacity'>> # <<all_seating, all_capacity>> =>
              /\ state = "ALLOCATED"
              /\ state' = "EMITTED"]_vars

\* a session with both a clash and a capacity shortfall has ended in
\* ABORTED_CONFLICT
C10_Witness ==
    /\ state = "ABORTED_CONFLICT"
    /\ SessionHasConflict
    /\ TotalCandidates > SumEffectiveCapacity

\* the outcomes that abort a session
AbortedStates == {"ABORTED_CONFLICT", "ABORTED_CAPACITY", "ABORTED_VIOLATION"}

\* the Morning session of the current row has two courses sharing a candidate
MorningHasConflict ==
    check_conflicts(CourseStudents(enrollments, extract_courses(row.Morning)))

\* C11: an aborted session does not stop the batch.  The step after an aborted
\* Morning session opens the Evening session of the same date, the step after
\* an aborted Evening session returns to the loop over the rows, the loop
\* reads a next row as long as there is one, and after any aborted session
\* the batch goes on to completion with every row read.
C11_AbortDoesNotStopBatch ==
    /\ [][/\ state \in AbortedStates =>
               /\ row_idx' = row_idx
               /\ row' = row
               /\ IF session = "Morning"
                  THEN session' = "Evening" /\ state' = "NEW"
                  ELSE session' = "none" /\ state' = "ROWS"
          /\ (state = "ROWS" /\ row_idx < num_rows) =>
               /\ row_idx' = row_idx + 1
               /\ row' \in Rows
               /\ state' = IF row'.Date = "NaT" THEN "ROWS" ELSE "NEW"]_vars
    /\ (state \in AbortedStates) ~> (state = "DONE" /\ row_idx = num_rows)

\* the Evening session of the last of several dates is emitted although the
\* Morning session of that date was aborted for a clash
C11_Witness ==
    /\ row_idx = num_rows
    /\ row_idx > 1
    /\ session = "Evening"
    /\ state = "EMITTED"
    /\ room_assignments # <<>>
    /\ MorningHasConflict

\* the courses of the session logged with an unplaced remainder
FailedCourses == {failed[i].course : i \in 1..Len(failed)}

\* the candidates the session's output lists for a course, over all rooms
RosterOf(course) ==
    UNION {SeqToSet(SessionSeating[i].Rolls) :
              i \in {j \in 1..Len(SessionSeating) : SessionSeating[j].Course = course}}

\* C13: a course that could not be seated in full does not abort the session.
\* Once a course is logged with an unplaced remainder, no placement is taken
\* back by the later steps, and after the last course the session is emitted
\* (unless the violation check, which does not look at the remainder, finds a
\* room over its effective capacity); the emitted output lists every
\* candidate of every course seated in full and every placement made.
C13_IncompleteCourseStillEmitted ==
    [][(state \in {"CONTINUE", "ALLOCATED"} /\ failed # <<>>) =>
          /\ \A i \in 1..Len(room_assignments) :
                /\ i <= Len(room_assignments')
                /\ room_assignments'[i].room = room_assignments[i].room
                /\ room_assignments'[i].course = room_assignments[i].course
                /\ Len(room_assignments[i].students)
                       <= Len(room_assignments'[i].students)
                /\ SubSeq(room_assignments'[i].students, 1,
                          Len(room_assignments[i].students))
                       = room_assignments[i].students
          /\ \A i \in 1..Len(failed) : i <= Len(failed') /\ failed'[i] = failed[i]
          /\ state = "ALLOCATED" =>
                /\ state' = IF UsageExceedsEffective
                            THEN "ABORTED_VIOLATION" ELSE "EMITTED"
                /\ state' = "EMITTED" =>
                      /\ \A k \in 1..Len(course_students) :
                            course_students[k].course \notin FailedCourses =>
                                RosterOf(course_students[k].course)' = EnrolledIn(k)
                      /\ \A i \in 1..Len(room_assignments) :
                            \E j \in 1..Len(SessionSeating') :
                                /\ SessionSeating'[j].Room = room_assignments[i].room
                                /\ SessionSeating'[j].Course = room_assignments[i].course
                                /\ SessionSeating'[j].Rolls
                                       = SortedRolls(room_assignments[i].students)]_vars

\* an emitted session with two courses: one has an unplaced remainder, the
\* other is seated in full and listed with all its candidates
C13_Witness ==
    /\ state = "EMITTED"
    /\ failed # <<>>
    /\ \E k \in 1..Len(course_students) :
        /\ course_students[k].course \notin FailedCourses
        /\ EnrolledIn(k) # {}
        /\ RosterOf(course_students[k].course) = EnrolledIn(k)
    /\ \E k \in 1..Len(course_students) :
        /\ course_students[k].course \in FailedCourses
        /\ RosterOf(course_students[k].course) # {}

\* C14: the clash check reports a conflict exactly when some candidate is
\* enrolled in two or more courses of the session: a session that has got
\* past the check is aborted for a clash if and only if two distinct courses
\* of the session share a candidate.
C14_ConflictExactlyWhenShared ==
    PastConflictCheck => (state = "ABORTED_CONFLICT" <=> SessionHasConflict)

\* the session has been parsed and has courses
PastParse == state = "PARSED" \/ PastConflictCheck

\* C15: duplicate enrolment entries collapse.  A candidate listed twice in
\* one course counts once toward the demand of the course, and a session is
\* not aborted for a clash unless two distinct courses share a candidate.
C15_DuplicateEnrollmentsCollapse ==
    /\ PastParse =>
          \A k \in 1..Len(course_students) :
              Len(course_students[k].students) = Cardinality(EnrolledIn(k))
    /\ state = "ABORTED_CONFLICT" => SessionHasConflict

\* what the allocator of the session answers for room i and a course
AvailableCapacity(i, course) ==
    get_available_capacity(allocator, rooms[i].RoomNo, course,
                           allocator.rooms[i].effective_capacity)

\* the available capacity as stated: from the effective capacity of the room
\* and the placements of the session, with the floor of the half
StatedAvailableCapacity(i, course) ==
    LET eff == EffectiveCapacity(i)
        usage == PlacedInRoom(rooms[i].RoomNo)
        course_usage == PlacedInRoomOf(rooms[i].RoomNo, course)
    IN  IF strategy = "dense"
        THEN Max(0, eff - usage)
        ELSE Max(0, Min(eff - usage, (eff \div 2) - course_usage))

\* C16: in every usage state of a session, for every room and course the
\* available capacity is max(0, eff - usage) under dense and
\* max(0, min(eff - usage, floor(0.5 x eff) - courseUsage)) under sparse; it
\* is never negative, and it is 0 for every room whose effective capacity is
\* 0 or less, which never receives a candidate.
C16_AvailableCapacityFormula ==
    PastCapacityCheck =>
        \A i \in 1..Len(rooms) : \A c \in {CourseA, CourseB} :
            /\ AvailableCapacity(i, c) = StatedAvailableCapacity(i, c)
            /\ AvailableCapacity(i, c) >= 0
            /\ EffectiveCapacity(i) <= 0 =>
                  /\ AvailableCapacity(i, c) = 0
                  /\ PlacedInRoom(rooms[i].RoomNo) = 0

\* a sparse session under way with a room of negative effective capacity and
\* a room where the per-course limit, not the free seats, bounds a course
\* that already sits there
C16_Witness ==
    /\ state \in {"CONTINUE", "ALLOCATED"}
    /\ strategy = "sparse"
    /\ \E i \in 1..Len(rooms) : EffectiveCapacity(i) < 0
    /\ \E i \in 1..Len(rooms) : \E c \in {CourseA, CourseB} :
        /\ PlacedInRoomOf(rooms[i].RoomNo, c) > 0
        /\ (EffectiveCapacity(i) \div 2) - PlacedInRoomOf(rooms[i].RoomNo, c)
               < EffectiveCapacity(i) - PlacedInRoom(rooms[i].RoomNo)

\* the candidates of a course the session has placed, over all rooms
PlacedOf(course) ==
    LET recs == SelectSeq(room_assignments, LAMBDA a : a.course = course)
    IN  SumSeq([i \in 1..Len(recs) |-> Len(recs[i].students)])

\* the candidates of a course logged as not placed
ReportedUnplaced(course) ==
    LET recs == SelectSeq(failed, LAMBDA f : f.course = course)
    IN  SumSeq([i \in 1..Len(recs) |-> recs[i].count])

\* the session holds the two courses of 25
TwoCoursesOf25 ==
    /\ Len(course_students) = 2
    /\ \A k \in 1..Len(course_students) : Len(course_students[k].students) = 25

\* C17 as stated: under sparse, with a room of effective capacity 40 and two
\* disjoint courses of 25, each course has at most 20 candidates in that
\* room and every other candidate is placed in another room or reported as
\* not placed, whatever the further rooms are.
C17_ScenarioBAsStated ==
    (state \in TerminalStates /\ TwoCoursesOf25) =>
        \A c \in SessionCourses :
            /\ PlacedInRoomOf(rooms[1].RoomNo, c) <= 20
            /\ PlacedOf(c) + ReportedUnplaced(c) = 25

\* C17, amended: the session reaches allocation exactly when the effective
\* capacities of all rooms add up to 50 or more; then each course has at
\* most 20 candidates in the room of 40 and every other candidate is placed
\* in another room or reported as not placed.  With fewer than 50 seats the
\* session ends in ABORTED_CAPACITY: nothing is placed and nothing reported.
C17_ScenarioBWithCapacityCheck ==
    (PastCapacityCheck /\ TwoCoursesOf25) =>
        /\ state = "ABORTED_CAPACITY" <=> SumEffectiveCapacity < 50
        /\ state = "ABORTED_CAPACITY" => room_assignments = <<>> /\ failed = <<>>
        /\ state \in {"ALLOCATED", "ABORTED_VIOLATION", "EMITTED"} =>
              \A c \in SessionCourses :
                  /\ PlacedInRoomOf(rooms[1].RoomNo, c) <= 20
                  /\ PlacedOf(c) + ReportedUnplaced(c) = 25

\* an emitted session: 20 candidates of each course in the room of 40, the
\* other 5 + 5 in another room
C17_Witness ==
    /\ state = "EMITTED"
    /\ TwoCoursesOf25
    /\ \A c \in SessionCourses :
        /\ PlacedInRoomOf(rooms[1].RoomNo, c) = 20
        /\ PlacedOf(c) = 25

\* an emitted session: 20 candidates of a course in the room of 40 and some of
\* its candidates reported as not placed
C17_WitnessIncomplete ==
    /\ state = "EMITTED"
    /\ TwoCoursesOf25
    /\ \E c \in SessionCourses :
        /\ PlacedInRoomOf(rooms[1].RoomNo, c) = 20
        /\ ReportedUnplaced(c) > 0

\* a room identifier without the blanks around it
Trimmed(id) ==
    LET solid == {i \in 1..Len(id) : id[i] # " "}
    IN  IF solid = {} THEN <<>>
        ELSE SubSeq(id, CHOOSE i \in solid : \A j \in solid : i <= j,
                        CHOOSE i \in solid : \A j \in solid : j <= i)

DecimalDigits == <<"0", "1", "2", "3", "4", "5", "6", "7", "8", "9">>

\* the floor of a trimmed identifier as stated
StatedFloor(t) ==
    IF /\ Len(t) >= 5
       /\ \A i \in 1..Len(t) : \E n \in 1..Len(DecimalDigits) : t[i] = DecimalDigits[n]
       /\ t[1] = "1"
       /\ t[2] = "0"
    THEN 10
    ELSE IF Len(t) >= 4 /\ \E n \in 1..Len(DecimalDigits) : t[1] = DecimalDigits[n]
    THEN (CHOOSE n \in 1..Len(DecimalDigits) : t[1] = DecimalDigits[n]) - 1
    ELSE 0

\* C18: the floor of a room is 10 when its trimmed identifier has five or
\* more characters, all digits, and starts with "10"; otherwise the value of
\* its first character when the identifier has four or more characters and
\* starts with a digit; otherwise 0 ("10042" gives 10, "2031" gives 2, "AB"
\* gives 0).  The distance of two floors is the absolute difference.
C18_FloorOfRoom ==
    allocator.rooms # <<>> =>
        /\ \A i \in 1..Len(rooms) :
              /\ allocator.rooms[i].Floor = StatedFloor(Trimmed(rooms[i].RoomNo))
              /\ rooms[i].RoomNo = <<"1", "0", "0", "4", "2">> =>
                     allocator.rooms[i].Floor = 10
              /\ rooms[i].RoomNo = <<"2", "0", "3", "1">> =>
                     allocator.rooms[i].Floor = 2
              /\ rooms[i].RoomNo = <<"A", "B">> => allocator.rooms[i].Floor = 0
        /\ \A i, j \in 1..Len(rooms) :
              LET f1 == allocator.rooms[i].Floor
                  f2 == allocator.rooms[j].Floor
              IN  calculate_distance(f1, f2) = IF f1 >= f2 THEN f1 - f2 ELSE f2 - f1

\* a session under way over the rooms "10042" and "2031": floors 10 and 2,
\* eight floors apart
C18_Witness ==
    /\ state = "CONTINUE"
    /\ \E i, j \in 1..Len(rooms) :
        /\ rooms[i].RoomNo = <<"1", "0", "0", "4", "2">>
        /\ rooms[j].RoomNo = <<"2", "0", "3", "1">>
        /\ allocator.rooms[i].Floor = 10
        /\ allocator.rooms[j].Floor = 2
        /\ calculate_distance(allocator.rooms[i].Floor, allocator.rooms[j].Floor) = 8

\* the course allocate_course is called for next, and its size
NextCourse == Head(sorted_courses).course
NextTotal == Len(Head(sorted_courses).students)

\* the building allocate_course chooses for the next course
ChosenBuilding == best_building(allocator, NextCourse, NextTotal)

BuildingIds == {rooms[i].Block : i \in 1..Len(rooms)}

\* the available capacity of a building for the next course, as stated
StatedBuildingAvailable(b) ==
    LET idx == {i \in 1..Len(rooms) : rooms[i].Block = b}
        RECURSIVE Total(_)
        Total(S) == IF S = {} THEN 0
                    ELSE LET i == CHOOSE x \in S : TRUE
                         IN  StatedAvailableCapacity(i, NextCourse) + Total(S \ {i})
    IN  Total(idx)

CoveringBuildings == {b \in BuildingIds : StatedBuildingAvailable(b) >= NextTotal}

LargestBuildings ==
    {b \in BuildingIds :
        \A o \in BuildingIds : StatedBuildingAvailable(o) <= StatedBuildingAvailable(b)}

\* the row of the registry in which a building appears first
FirstRowOf(b) ==
    CHOOSE i \in 1..Len(rooms) :
        /\ rooms[i].Block = b
        /\ \A j \in 1..(i - 1) : rooms[j].Block # b

\* C19 as stated, for a course with candidates: the chosen building is the
\* first one by ascending building id whose available capacity covers the
\* whole course, and if there is none a building with the largest available
\* capacity.
C19_FirstCoveringBuildingById ==
    (state = "CONTINUE" /\ sorted_courses # <<>> /\ NextTotal > 0) =>
        /\ ChosenBuilding.some
        /\ IF CoveringBuildings # {}
           THEN /\ ChosenBuilding.id \in CoveringBuildings
                /\ \A b \in CoveringBuildings : ChosenBuilding.id <= b
           ELSE ChosenBuilding.id \in LargestBuildings

\* C19, amended: the chosen building is the first one, in the order in which
\* the buildings first appear in the room registry, whose available capacity
\* covers the whole course; if there is none, the first one in that order
\* among the buildings with the largest available capacity, when that
\* capacity is positive.
C19_FirstCoveringBuildingInRegistryOrder ==
    (state = "CONTINUE" /\ sorted_courses # <<>>) =>
        IF CoveringBuildings # {}
        THEN /\ ChosenBuilding.some
             /\ ChosenBuilding.id \in CoveringBuildings
             /\ \A b \in CoveringBuildings :
                   FirstRowOf(ChosenBuilding.id) <= FirstRowOf(b)
        ELSE (\E b \in BuildingIds : StatedBuildingAvailable(b) > 0) =>
             /\ ChosenBuilding.some
             /\ ChosenBuilding.id \in LargestBuildings
             /\ \A b \in LargestBuildings :
                   FirstRowOf(ChosenBuilding.id) <= FirstRowOf(b)

\* two buildings cover the next course and the chosen one is the one listed
\* first in the registry, which has the greater id
C19_Witness ==
    /\ state = "CONTINUE"
    /\ sorted_courses # <<>>
    /\ NextTotal > 0
    /\ Cardinality(CoveringBuildings) = 2
    /\ ChosenBuilding.some
    /\ \E b \in CoveringBuildings :
        /\ b < ChosenBuilding.id
        /\ FirstRowOf(ChosenBuilding.id) < FirstRowOf(b)

\* no building covers the next course and the chosen one is the largest
C19_WitnessLargest ==
    /\ state = "CONTINUE"
    /\ sorted_courses # <<>>
    /\ CoveringBuildings = {}
    /\ Cardinality(BuildingIds) = 2
    /\ ChosenBuilding.some
    /\ \E b \in BuildingIds :
          StatedBuildingAvailable(b) < StatedBuildingAvailable(ChosenBuilding.id)

\* the candidates of a course placed by the assignments, over all rooms
PlacedIn(assignments, course) ==
    LET recs == SelectSeq(assignments, LAMBDA a : a.course = course)
    IN  SumSeq([i \in 1..Len(recs) |-> Len(recs[i].students)])

\* the building of a room of the registry
BuildingOfRoom(room_id) ==
    rooms[CHOOSE i \in 1..Len(rooms) : rooms[i].RoomNo = room_id].Block

\* C20: if the available capacity of the chosen building covers the course,
\* allocate_course seats every candidate of the course in rooms of that
\* building: nothing is left over and no room of another building is used,
\* under both strategies.
C20_CoveringBuildingSeatsAll ==
    [][(/\ state = "CONTINUE"
        /\ sorted_courses # <<>>
        /\ ChosenBuilding.some
        /\ StatedBuildingAvailable(ChosenBuilding.id) >= NextTotal) =>
          /\ failed' = failed
          /\ PlacedIn(room_assignments', NextCourse) = NextTotal
          /\ \A i \in 1..Len(room_assignments') :
                room_assignments'[i].course = NextCourse =>
                    BuildingOfRoom(room_assignments'[i].room) = ChosenBuilding.id]_vars

\* C21: a course is left with candidates unplaced only when capacity is
\* exhausted for it: once allocate_course has returned with a remainder for
\* a course, the available capacity of every room of the registry is 0 for
\* that course, whatever the building ids are.
C21_UnplacedOnlyWhenExhausted ==
    PastCapacityCheck =>
        \A c \in FailedCourses : \A i \in 1..Len(rooms) :
            AvailableCapacity(i, c) = 0

\* the allocate_course call that comes next: its input, the chosen building,
\* the two room lists, and the states between the passes
NextStudents == Head(sorted_courses).students
NextInput == [al |-> allocator, remaining |-> NextStudents, allocations |-> <<>>]
NextBuildingRooms ==
    IF Truthy(ChosenBuilding)
    THEN SortedBuildingRooms(allocator, ChosenBuilding.id) ELSE <<>>
NextOtherRooms == SortedOtherRooms(allocator, ChosenBuilding)
AfterBuildingPassA == FragmentAvoidancePass(NextInput, NextCourse, NextBuildingRooms, 1)
AfterBuilding ==
    IF Truthy(ChosenBuilding)
    THEN _assign_to_rooms(NextInput, NextCourse, NextBuildingRooms) ELSE NextInput
AfterOtherPassA == FragmentAvoidancePass(AfterBuilding, NextCourse, NextOtherRooms, 1)
NextResult == allocate_course(allocator, NextCourse, NextStudents)

\* the allocations a pass has added
AddedBy(before, after) ==
    SubSeq(after.allocations, Len(before.allocations) + 1, Len(after.allocations))

\* the candidates the allocations give to a room
GivenTo(allocations, room) ==
    LET recs == SelectSeq(allocations, LAMBDA a : a.room.RoomNo = room.RoomNo)
    IN  SumSeq([i \in 1..Len(recs) |-> Len(recs[i].students)])

\* A fragment-avoidance pass over the room list, from the state before to the
\* state after: a room with available capacity is given its slice
\* min(remaining, available) unless the slice is smaller than 3 and would
\* leave candidates; every allocation holds 3 candidates or more or seats all
\* that remained.
PassAConforms(before, after, course, room_list) ==
    LET added == AddedBy(before, after)
        Available(k) == get_available_capacity(before.al, room_list[k].RoomNo, course,
                                               room_list[k].effective_capacity)
        Remaining(k) ==
            Len(before.remaining)
                - SumSeq([j \in 1..(k - 1) |-> GivenTo(added, room_list[j])])
        Slice(k) == Min(Remaining(k), Available(k))
        Skipped(k) == Slice(k) < 3 /\ Remaining(k) > Slice(k)
    IN  /\ \A k \in 1..Len(room_list) :
              GivenTo(added, room_list[k]) =
                  IF Remaining(k) > 0 /\ Available(k) > 0 /\ ~Skipped(k)
                  THEN Slice(k) ELSE 0
        /\ \A a \in 1..Len(added) :
              \/ Len(added[a].students) >= 3
              \/ a = Len(added) /\ after.remaining = <<>>
        /\ Len(after.remaining) = Remaining(Len(room_list) + 1)

\* C22: in the fragment-avoidance pass a room is skipped exactly when its
\* slice min(remaining, available) is smaller than 3 and candidates would
\* remain after it; every allocation of that pass holds at least 3
\* candidates or seats all remaining candidates of the course, over the
\* chosen building and over the other rooms; smaller slices that leave
\* candidates come after it, from the forced fill.
C22_FragmentAvoidancePass ==
    (state = "CONTINUE" /\ sorted_courses # <<>>) =>
        /\ PassAConforms(NextInput, AfterBuildingPassA, NextCourse, NextBuildingRooms)
        /\ AfterBuilding.remaining # <<>> =>
              PassAConforms(AfterBuilding, AfterOtherPassA, NextCourse, NextOtherRooms)
        /\ Truthy(ChosenBuilding) =>
              SubSeq(NextResult.allocations, 1, Len(AfterBuildingPassA.allocations))
                  = AfterBuildingPassA.allocations
        /\ \A a \in 1..Len(NextResult.allocations) :
              (/\ Len(NextResult.allocations[a].students) < 3
               /\ a < Len(NextResult.allocations)) =>
                  \/ a > Len(AfterBuildingPassA.allocations)
                  \/ AfterBuildingPassA.remaining = <<>>

\* the pass over the chosen building skips a room whose slice of fewer than 3
\* would leave candidates, and the forced fill then seats a slice of fewer
\* than 3 there
C22_Witness ==
    /\ state = "CONTINUE"
    /\ sorted_courses # <<>>
    /\ Truthy(ChosenBuilding)
    /\ AfterBuildingPassA.allocations = <<>>
    /\ AfterBuildingPassA.remaining # <<>>
    /\ \E a \in 1..Len(AfterBuilding.allocations) :
          Len(AfterBuilding.allocations[a].students) \in 1..2

\* the position of a room in a room list
PositionIn(room_list, room) ==
    CHOOSE k \in 1..Len(room_list) : room_list[k].RoomNo = room.RoomNo

\* the allocations come in the order of the room list
InListOrder(allocations, room_list) ==
    /\ \A a \in 1..Len(allocations) :
          \E k \in 1..Len(room_list) : room_list[k].RoomNo = allocations[a].room.RoomNo
    /\ \A a, b \in 1..Len(allocations) :
          a < b => PositionIn(room_list, allocations[a].room)
                       < PositionIn(room_list, allocations[b].room)

\* the rooms of a building, as the allocator holds them
RoomSetOf(al, b) ==
    {al.rooms[i] : i \in {j \in 1..Len(al.rooms) : al.rooms[j].Block = b}}

\* the floor of the first room under (effective capacity descending, floor
\* ascending)
ReferenceFloor(room_set) ==
    CHOOSE f \in {r.Floor : r \in room_set} :
        \E r \in room_set :
            /\ r.Floor = f
            /\ \A o \in room_set :
                  \/ o.effective_capacity < r.effective_capacity
                  \/ o.effective_capacity = r.effective_capacity /\ o.Floor >= f

FloorDistance(r, ref) == IF r.Floor >= ref THEN r.Floor - ref ELSE ref - r.Floor

\* the list is ordered by (floor distance to ref ascending, effective
\* capacity descending)
OrderedByDistance(room_list, ref) ==
    \A i, j \in 1..Len(room_list) :
        i < j =>
            \/ FloorDistance(room_list[i], ref) < FloorDistance(room_list[j], ref)
            \/ /\ FloorDistance(room_list[i], ref) = FloorDistance(room_list[j], ref)
               /\ room_list[i].effective_capacity >= room_list[j].effective_capacity

OrderedByCapacityBuildingFloor(room_list) ==
    \A i, j \in 1..Len(room_list) :
        i < j =>
            LET r1 == room_list[i]
                r2 == room_list[j]
            IN  \/ r1.effective_capacity > r2.effective_capacity
                \/ /\ r1.effective_capacity = r2.effective_capacity
                   /\ \/ r1.Block < r2.Block
                      \/ r1.Block = r2.Block /\ r1.Floor <= r2.Floor

\* C24: rooms outside the chosen building receive candidates of a course
\* only after both passes over the chosen building have left candidates
\* unplaced; they are visited in the order (effective capacity descending,
\* building id ascending, floor ascending), first by a fragment-avoidance
\* pass and then by a forced-fill pass.
C24_OtherRoomsAfterBuilding ==
    (state = "CONTINUE" /\ sorted_courses # <<>>) =>
        LET sel == ChosenBuilding
            input == NextInput
            building_list == IF sel.some THEN SortedBuildingRooms(allocator, sel.id)
                             ELSE <<>>
            both == _assign_to_rooms(input, NextCourse, building_list)
            outside == {allocator.rooms[i] : i \in {j \in 1..Len(allocator.rooms) :
                            ~sel.some \/ allocator.rooms[j].Block # sel.id}}
            other_list == SortedOtherRooms(allocator, sel)
            otherA == FragmentAvoidancePass(both, NextCourse, other_list, 1)
            result == NextResult
            given_inside == SelectSeq(result.allocations,
                                      LAMBDA a : a.room \notin outside)
            given_outside == SelectSeq(result.allocations,
                                       LAMBDA a : a.room \in outside)
        IN  /\ result.allocations = given_inside \o given_outside
            /\ given_outside # <<>> =>
                  /\ both.remaining # <<>>
                  /\ given_inside = both.allocations
            /\ {other_list[k] : k \in 1..Len(other_list)} = outside
            /\ Len(other_list) = Cardinality(outside)
            /\ OrderedByCapacityBuildingFloor(other_list)
            /\ both.remaining # <<>> =>
                  /\ PassAConforms(both, otherA, NextCourse, other_list)
                  /\ SubSeq(given_outside, 1, Len(AddedBy(both, otherA)))
                         = AddedBy(both, otherA)
                  /\ InListOrder(AddedBy(both, otherA), other_list)
                  /\ InListOrder(SubSeq(given_outside, Len(AddedBy(both, otherA)) + 1,
                                        Len(given_outside)), other_list)

\* both passes over the chosen building leave candidates, and two rooms of
\* another building then receive candidates, the one on the lower floor first
C24_Witness ==
    /\ state = "CONTINUE"
    /\ sorted_courses # <<>>
    /\ Truthy(ChosenBuilding)
    /\ AfterBuilding.allocations # <<>>
    /\ AfterBuilding.remaining # <<>>
    /\ Len(NextResult.allocations) >= Len(AfterBuilding.allocations) + 2
    /\ Len(NextOtherRooms) = 2
    /\ NextOtherRooms[1].Floor < NextOtherRooms[2].Floor
    /\ PositionIn(rooms, NextOtherRooms[2]) < PositionIn(rooms, NextOtherRooms[1])

\* the enrolment size of a course of the session
SizeOf(course) ==
    Len(course_students[CHOOSE k \in 1..Len(course_students) :
                            course_students[k].course = course].students)

\* where the code of a course first stands in the cell of the session
PlaceInCell(course) ==
    LET text == row[session].text
    IN  CHOOSE i \in 1..Len(text) :
            /\ text[i] = course[1]
            /\ \A j \in 1..(i - 1) : text[j] # course[1]

\* C25: within a session allocate_course is called once per course, in the
\* order of enrolment size descending, courses of equal size in the order in
\* which they stand in the course list of the session; no course is
\* allocated before a strictly larger one.
C25_LargestCourseFirst ==
    state \in {"CONTINUE", "ALLOCATED", "ABORTED_VIOLATION", "EMITTED"} =>
        /\ \A i, j \in 1..Len(allocated) :
              i < j =>
                  /\ allocated[i] # allocated[j]
                  /\ SizeOf(allocated[i]) >= SizeOf(allocated[j])
                  /\ SizeOf(allocated[i]) = SizeOf(allocated[j]) =>
                        PlaceInCell(allocated[i]) < PlaceInCell(allocated[j])
        /\ SeqToSet(allocated) \subseteq SessionCourses
        /\ \A c \in SessionCourses \ SeqToSet(allocated) :
              /\ state = "CONTINUE"
              /\ \A i \in 1..Len(allocated) : SizeOf(allocated[i]) >= SizeOf(c)

\* two courses of equal size allocated in the order of the cell "B ; A"
C25_Witness ==
    /\ state = "ALLOCATED"
    /\ Len(allocated) = 2
    /\ PlaceInCell(allocated[1]) < PlaceInCell(allocated[2])
    /\ SizeOf(allocated[1]) = SizeOf(allocated[2])
    /\ SizeOf(allocated[1]) > 0
    /\ allocated[1] = CourseB

\* a session where the larger course comes second in the cell and is
\* allocated first
C25_WitnessLargerSecond ==
    /\ state = "ALLOCATED"
    /\ Len(allocated) = 2
    /\ PlaceInCell(allocated[2]) < PlaceInCell(allocated[1])
    /\ SizeOf(allocated[1]) > SizeOf(allocated[2])

\* the marker as stated: the letters of "no exam", each in either case
MarkerLetters == <<{"n", "N"}, {"o", "O"}, {" "}, {"e", "E"}, {"x", "X"},
                   {"a", "A"}, {"m", "M"}>>

\* a cell that is missing, empty, or the marker in any letter case after
\* trimming
StatedNoExamCell(cell) ==
    \/ cell.kind # "str"
    \/ Trimmed(cell.text) = <<>>
    \/ /\ Len(Trimmed(cell.text)) = Len(MarkerLetters)
       /\ \A i \in 1..Len(MarkerLetters) : Trimmed(cell.text)[i] \in MarkerLetters[i]

\* C26: a session whose course-list cell is missing, empty, or the "no exam"
\* marker in any letter case after trimming parses to an empty course list
\* and is skipped: the step from the new session leads to the skipped
\* session with no course, the step from the skipped session leads to the
\* next session or row, and neither runs a check, allocates, or changes the
\* batch accumulators.
C26_NoExamSessionSkipped ==
    [][/\ (state = "NEW" /\ StatedNoExamCell(row[session])) =>
            /\ state' = "SKIPPED"
            /\ course_students' = <<>>
            /\ allocated' = <<>>
            /\ room_assignments' = <<>>
            /\ UNCHANGED <<allocator, all_seating, all_capacity>>
       /\ state = "SKIPPED" =>
            /\ state' \in {"NEW", "ROWS"}
            /\ UNCHANGED <<locals, all_seating, all_capacity>>]_vars

\* the Evening cell "  no EXAM  " skipped after the Morning session was emitted
C26_Witness ==
    /\ state = "SKIPPED"
    /\ session = "Evening"
    /\ row[session] = CellMarkerPadded
    /\ all_seating # <<>>
    /\ all_capacity # {}

\* s is an initial part of t
IsPrefix(s, t) == Len(s) <= Len(t) /\ s = SubSeq(t, 1, Len(s))

\* C27: an error raised while a timetable row is processed is caught and the
\* scheduler proceeds to the next date.  The step after the error returns to
\* the loop over the rows with the accumulators as they were, no step removes
\* a record from the accumulators, the loop reads a next row as long as there
\* is one, and after any error the batch goes on until every row is read and
\* the reports are written.
C27_RowErrorIsolated ==
    /\ [][/\ state = "ROW_ERROR" =>
               /\ state' = "ROWS"
               /\ row_idx' = row_idx
               /\ UNCHANGED outputs
          /\ IsPrefix(all_seating, all_seating')
          /\ all_capacity \subseteq all_capacity'
          /\ (state = "ROWS" /\ row_idx < num_rows) => row_idx' = row_idx + 1
          /\ state' = "DONE" => (state = "ROWS" /\ row_idx = num_rows)]_vars
    /\ (state = "ROW_ERROR") ~> (state = "DONE" /\ row_idx = num_rows)

\* the reports are written with the records of the first date, whose Morning
\* session failed while its sheets were written, and with those of the
\* second date, which was emitted after the error
C27_Witness ==
    /\ state = "DONE"
    /\ row_idx = 2
    /\ \E i \in 1..Len(all_seating) : all_seating[i].Date = 1
    /\ \A r \in all_capacity : r.Date = 2
    /\ \E r \in all_capacity : r.Date = 2

\* the candidates of the session's courses that allocate_course gave to a room
ReceivedBy(room_id) ==
    LET given == SelectSeq(room_assignments, LAMBDA a : a.room = room_id)
    IN  SumSeq([i \in 1..Len(given) |-> Len(given[i].students)])

\* C28: for every emitted session the capacity snapshot holds one record for
\* each room that received at least one candidate in the session and no
\* other record; in each record Allotted is the sum of the allotted counts of
\* the room's seating-summary records of the session, which is the
\* allocator's usage counter and the number of candidates placed in the room,
\* and Vacant is the nominal capacity minus Allotted and at least the buffer.
C28_CapacitySnapshot ==
    state = "EMITTED" =>
        LET snapshot == SessionCapacity
        IN  /\ {r.RoomNo : r \in snapshot} =
                   {rooms[i].RoomNo : i \in {j \in 1..Len(rooms) :
                                                ReceivedBy(rooms[j].RoomNo) >= 1}}
            /\ \A r1, r2 \in snapshot : r1.RoomNo = r2.RoomNo => r1 = r2
            /\ \A r \in snapshot :
                  \E i \in 1..Len(rooms) :
                      /\ rooms[i].RoomNo = r.RoomNo
                      /\ r.ExamCapacity = rooms[i].ExamCapacity
                      /\ r.Allotted = AllottedInRoom(r.RoomNo)
                      /\ r.Allotted = allocator.usage[r.RoomNo]
                      /\ r.Allotted = ReceivedBy(r.RoomNo)
                      /\ r.Vacant = rooms[i].ExamCapacity - r.Allotted
                      /\ r.Vacant >= buffer

\* an emitted session with a buffer that used one room for two courses and
\* left the other room of the registry empty
C28_Witness ==
    /\ state = "EMITTED"
    /\ buffer > 0
    /\ Cardinality(SessionCapacity) = 1
    /\ \E r \in SessionCapacity : r.Allotted >= 2 /\ r.Vacant = buffer
    /\ Len(SessionSeating) = 2
    /\ \E i \in 1..Len(rooms) : rooms[i].ExamCapacity > buffer /\ ReceivedBy(rooms[i].RoomNo) = 0

\* C29: under the dense strategy, when every room's effective capacity is
\* non-negative and the session has passed the conflict check and the
\* aggregate capacity check, no course of the session is logged as failed to
\* allocate, and once the loop over the courses has ended every candidate of
\* every course of the session is seated.
C29_DenseSeatsEveryone ==
    ( /\ strategy = "dense"
      /\ \A i \in 1..Len(rooms) : rooms[i].ExamCapacity - buffer >= 0
      /\ state \in {"CONTINUE", "ALLOCATED", "ABORTED_VIOLATION", "EMITTED"} ) =>
        /\ failed = <<>>
        /\ state # "CONTINUE" =>
              \A k \in 1..Len(course_students) :
                  Len(course_students[k].students) =
                      PlacedIn(room_assignments, course_students[k].course)

\* the faculty given to the students of the cohort of results[i] before it
TakenBefore(i) ==
    LET k == Len(fac_list(df))
    IN  {results[j].Allocated : j \in {m \in 1..(i - 1) : (m - 1) \div k = (i - 1) \div k}}

\* the number of students a faculty was given
LoadOf(f) == Cardinality({i \in 1..Len(results) : results[i].Allocated = f})

\* the assignment as stated, of a loop that has ended
StatedAssignment ==
    LET facs == SeqToSet(fac_list(df))
        n == Len(df.rows)
    IN  /\ Len(ordered_data) = n
        /\ \A r \in 1..n : \E i \in 1..n : ordered_data[i] = df.rows[r]
        /\ \A i \in 1..(n - 1) : ordered_data[i].CGPA >= ordered_data[i + 1].CGPA
        /\ Len(results) = n
        /\ \A i \in 1..n :
              /\ results[i].Roll = ordered_data[i].Roll
              /\ results[i].Allocated \in facs \ TakenBefore(i)
              /\ results[i].Preference_Rank = ordered_data[i].rank[results[i].Allocated]
              /\ \A f \in facs \ TakenBefore(i) :
                    ordered_data[i].rank[results[i].Allocated] <= ordered_data[i].rank[f]
        /\ \A f, g \in facs : LoadOf(f) - LoadOf(g) <= 1

\* C30: in the faculty assignment portal, for every uploaded table the cohort
\* loop terminates, and then every student is assigned exactly one faculty:
\* the students are taken in descending CGPA order in consecutive cohorts of
\* as many students as there are faculty columns, each student gets the
\* best-ranked faculty not yet taken in the cohort, no faculty is given to
\* two students of one cohort, and the final loads of the faculty differ by
\* at most one.
C30_CohortLoopAssignsEveryone ==
    /\ [](stage \in {"processed", "error"} => StatedAssignment)
    /\ (stage = "loop") ~> (stage \in {"processed", "error"})

\* a table of three students and two faculty columns assigned in two cohorts
C30_Witness ==
    /\ stage = "processed"
    /\ Len(results) = 3
    /\ Len(fac_list(df)) = 2
    /\ \E f \in SeqToSet(fac_list(df)) : LoadOf(f) = 2
    /\ results[2].Preference_Rank = 2

\* the loop standing at a table with students and no faculty column
C30_WitnessNoFaculty ==
    /\ stage = "loop"
    /\ fac_list(df) = <<>>
    /\ Len(ordered_data) > 0

====
